---------------------------- MODULE Spec2Model ----------------------------
(***************************************************************************)
(* Model of the Unreal MCP gateway (Python): the framed-JSON codec         *)
(* (protocol.py), the upstream editor session (unreal_mcp_server.py) and   *)
(* the sliding-window rate limiter (security/rate_limit.py), the role      *)
(* policy (security/policy.py), the path sandbox (security/sandbox.py),    *)
(* the dedup store (dedup.py) and the recipe executor                      *)
(* (cli/mcp_cli/recipes.py, cli/mcp_cli/schema.py).                        *)
(*                                                                         *)
(* These specifications share the module:                                  *)
(*   SpecFrame   one write_frame / read_frame exchange over a byte stream  *)
(*   Spec        one caller thread driving UnrealConnection.send_command   *)
(*   SpecConc    two caller threads on the same UnrealConnection           *)
(*   SpecHs      the handshake against an editor that answers anything     *)
(*   SpecRate    a sequence of RateLimiter.check calls                     *)
(*   SpecPolicy  Policy.is_tool_allowed over every small rule set          *)
(*   SpecSandbox is_path_allowed over every small set of roots             *)
(*   SpecDedup   a DedupStore built from a journal, two threads calling it *)
(*   SpecJournal DedupStore.__init__ over every small journal              *)
(*   SpecPlan    validate_recipe and RecipeExecutor.plan over small recipes*)
(*   SpecRecipe  RecipeExecutor.execute with its worker pool               *)
(***************************************************************************)
EXTENDS Integers, Sequences, FiniteSets, TLC

VARIABLES
    \* ---- frame codec (protocol.py) ----
    payload,      \* the object handed to write_frame
    stream,       \* bytes sent and not yet received
    wpc,          \* writer position: "hdr", "body", "done"
    wsent,        \* write_all: total_sent of the current write_all call
    peerClosed,   \* the writing side closed the stream
    rpc,          \* reader position: "hdr", "body", "done", "err"
    rchunks,      \* read_exact: the chunks received so far, joined
    rremaining,   \* read_exact: the bytes still to read
    rlength,      \* read_frame: the length unpacked from the header
    rresult,      \* read_frame: [obj, code], the decoded object or the error code
    rfault,       \* an EOF or a timeout hit the read
    rsplit,       \* some recv returned fewer bytes than were asked for
    \* ---- upstream session (unreal_mcp_server.py) ----
    allow_write,  \* SERVER_CONFIG.allow_write
    dry_run,      \* SERVER_CONFIG.dry_run
    connected,    \* UnrealConnection.connected
    socket,       \* UnrealConnection.socket: 0 is None, else the socket's number
    capabilities, \* UnrealConnection.capabilities
    nsock,        \* sockets created so far
    open,         \* sockets the session has not closed
    sent,         \* per socket: header and body pieces written, not yet read by the editor
    inbox,        \* per socket: frames the editor wrote, not yet read
    wrote,        \* per socket: capabilities, command, if the session began to write one
    audit,        \* the audit journal (logs/audit.jsonl), one entry per line
    pc,           \* per caller thread: its position in send_command
    cur,          \* per caller thread: the call in progress
    wr,           \* per caller thread: the frame whose body is still to be written
    result,       \* per caller thread: what send_command returns
    consumed,     \* per caller thread: frames read from the socket by this call
    pongs,        \* per caller thread: ts of the pongs written by this call
    ncalls,       \* send_command calls started
    done,         \* history of the calls that returned
    nctl,         \* control frames the editor has initiated during the current call
    exec,         \* call ids of the commands the editor executed
    hsres,        \* per socket: outcome of the handshake
    first,        \* per socket: first frame received after the handshake frame
    \* ---- rate limiter (security/rate_limit.py) ----
    per_minute_global,  \* RateLimitConfig.per_minute_global
    per_minute_tool,    \* RateLimitConfig.per_minute_tool
    global_hits,  \* RateLimiter.global_hits: timestamps, oldest first
    tool_hits,    \* RateLimiter.tool_hits: per tool, timestamps, oldest first
    now,          \* time.time(), in seconds
    last_check,   \* what the last check call returned
    allows,       \* history: [tool, ts] of the allows of the last WINDOW seconds
    burst,        \* history: the answers to the dispatches made since the clock last moved
    \* ---- role policy (security/policy.py) ----
    roles,        \* Policy.roles: role name -> [allow, deny], lists of patterns
    tool_name,    \* the tool whose dispatch is evaluated
    verdict,      \* what is_tool_allowed returned: "none" before the call
    \* ---- path sandbox (security/sandbox.py) ----
    path,             \* the path given to is_path_allowed: its components below "/"
    allowed_roots,    \* policy.paths.allowed: a list of roots
    forbidden_roots,  \* policy.paths.forbidden: a list of roots
    path_ok,      \* what is_path_allowed returned: "none" before the call
    \* ---- dedup store (dedup.py) ----
    ttl_sec,      \* DedupStore.ttl_sec
    max_entries,  \* DedupStore.max_entries
    entries,      \* DedupStore._entries, in insertion order: [key, timestamp, response]
    journal,      \* the lines of logs/dedup.jsonl
    clock,        \* time.time() as the store reads it
    up,           \* "no" before DedupStore() is called, "yes" once it returned, "raised"
    dpc,          \* per caller thread: "idle", or "put" once put has read the clock
    dcall,        \* per caller thread: [id, response, now] of the put in progress
    puts,         \* history, per requestId: the last put completed since construction
    last_get,     \* history: what the last get returned
    nputs,        \* put calls made so far
    \* ---- recipe executor (cli/mcp_cli/recipes.py, schema.py) ----
    recipe,       \* the steps of the recipe file, as declared: [name, needs, when]
    valid,        \* validate_recipe: "none" before the call, then "yes" or "no"
    plan_out,     \* what plan() returned: [called, raised, order]
    parallelism,        \* execute(parallelism=...)
    continue_on_error,  \* execute(continue_on_error=...)
    epc,          \* execute: "idle", "loop", "wait", "observe", "finish", "end"
    ready_nodes,  \* TopologicalSorter: nodes ready and not yet returned by get_ready
    done_nodes,   \* TopologicalSorter: nodes marked done
    queue,        \* ThreadPoolExecutor: work items submitted and not yet picked up
    fut,          \* per step: state of its future
    futures,      \* execute: the futures dict, by step name
    done_set,     \* execute: the futures wait() returned, not yet looked at
    results,      \* execute: results, per step
    context_steps,      \* self.context["steps"], per step
    failed,       \* execute: failed
    summary_ok,   \* summary["ok"]: "none" until execute returns
    started,      \* history, per step: the steps published when its tool call began
    aborted,      \* history: the scheduler has seen a failure and aborted
    late          \* history: steps whose tool call began after the abort

\* RecipeExecutor._run_step, one step and its retries
VARIABLES
    max_attempts,   \* the step's retry.max_attempts; 0 stands for a value _step_retry_config ignores
    default_retry,  \* execute(default_retry=...)
    invocations,    \* history: how each call of invoke() ended, in order
    step_result     \* the StepResult _run_step returned, NoStepResult before

\* the two codecs, by sizes: protocol.py and cli/mcp_cli/mcp_client.py
VARIABLES
    codec,      \* "server" for protocol.py, "client" for mcp_client.py
    body_len,   \* write_frame: len(body) of the payload to send
    wire,       \* read_frame: what the socket will deliver: [havail, hlen, avail, kind, ending]
    wres,       \* what write_frame did: [raised, code, sent]
    rres        \* what read_frame did: [raised, code, header, body]

\* the tools the server runs itself: automation.run_specs, gauntlet.run, uat.buildcookrun
VARIABLES
    wrapper,       \* the tool dispatched
    violation,     \* what _apply_security returns for the call: a code, or "none"
    config_error,  \* _parse_payload / from_payload raises ToolError
    procs,         \* how each spawned process ends, one per platform for uat.buildcookrun
    envelope       \* the response the dispatch returned, NoEnvelope before

\* security/audit_sign.py: AuditSigner
VARIABLES
    secret,     \* AuditSigner.secret
    record,     \* the payload of the AuditRecord to sign, in insertion order
    wallclock,  \* time.time() and datetime.now(), in seconds
    nticks,     \* how often the clock has moved
    signed,     \* history: what each sign call returned, and the key order it was given
    recent,     \* AuditSigner._recent: nonce -> timestamp
    verifies    \* history: the verify_nonce calls: [nonce, at, accepted]

\* RecipeExecutor.execute: the audit of the summary
VARIABLES
    audit_actions,  \* execute: audit_actions (audit_diffs is filled the same way)
    obtained        \* history: the steps whose tool call has returned a response

\* server.py: the policy, its loader and the gates of a dispatch
VARIABLES
    policy_file,     \* the policy document on disk, as _parse_policy reads it
    loader_policy,   \* PolicyLoader._policy
    current_policy,  \* _CURRENT_POLICY
    request,         \* the request of the last dispatch, NoRequest before
    gate_answer,     \* what the last dispatch returned: [code, executed]
    ndispatch        \* dispatches so far

\* protocol.py read_frame under a timeout, inside _wait_for_message
VARIABLES
    mono,          \* time.monotonic()
    wfm_deadline,  \* _wait_for_message: deadline
    wfm_pc,        \* _wait_for_message: "read" inside read_frame, "returned", "raised"
    wfm_end,       \* history: the time at which _wait_for_message returned or raised
    nframes,       \* control frames _wait_for_message has handled
    rf_timeout,    \* read_frame: timeout
    rf_start,      \* history: the time at which this read_frame was called
    rf_part,       \* read_frame: "header" or "body", the read_exact it is in
    rx_deadline,   \* read_exact: deadline
    rx_need,       \* read_exact: remaining (bytes)
    rf_last        \* history: timeout and duration of the last read_frame that ended

\* mcp_client.py: one MCPClient and its socket, used by the step workers
VARIABLES
    next_id,      \* the requestIds drawn so far (uuid4 never repeats)
    to_server,    \* requests written to the socket, not yet read by the server
    from_server,  \* responses written by the server, not yet read by the client
    cpc,          \* per worker, its call_tool: "idle", "written", "returned", "failed"
    creq,         \* per worker: request_id of the attempt under way, 0 before
    attempt_ids,  \* history, per worker: the requestId of each attempt of its call
    returned      \* history, per worker: the call that returned, its requestId and
                  \* the requestId the response it was given answers

fvars == <<payload, stream, wpc, wsent, peerClosed, rpc, rchunks, rremaining, rlength,
           rresult, rfault, rsplit>>

cfg == <<allow_write, dry_run>>
conn == <<connected, socket, open>>
net == <<sent, inbox>>
thr == <<pc, cur, wr, result, consumed, pongs>>
hist == <<ncalls, done, nctl, exec, hsres, first, wrote>>
svars == <<cfg, conn, net, thr, hist, capabilities, nsock, audit>>

lvars == <<per_minute_global, per_minute_tool, global_hits, tool_hits, now, last_check,
           allows, burst>>

pvars == <<roles, tool_name, verdict>>

\* the parts other than the codec, the session and the limiter
bvars == <<path, allowed_roots, forbidden_roots, path_ok>>
dvars == <<ttl_sec, max_entries, entries, journal, clock, up, dpc, dcall, puts, last_get,
           nputs>>
rcp == <<recipe, valid, plan_out, parallelism, continue_on_error>>
sched == <<epc, ready_nodes, done_nodes, queue, fut, futures, done_set, results, context_steps,
           failed, summary_ok>>
rhist == <<started, aborted, late>>
rvars == <<rcp, sched, rhist>>
tvars == <<max_attempts, default_retry, invocations, step_result>>
kvars == <<codec, body_len, wire, wres, rres>>
evars == <<wrapper, violation, config_error, procs, envelope>>
\* the variables of the earlier parts, and for each later part all the others
ovars == <<fvars, svars, lvars, pvars, bvars, dvars, rvars>>
avars == <<secret, record, wallclock, nticks, signed, recent, verifies>>
uvars == <<audit_actions, obtained>>
gvars == <<policy_file, loader_policy, current_policy, request, gate_answer, ndispatch>>
cvars == <<mono, wfm_deadline, wfm_pc, wfm_end, nframes, rf_timeout, rf_start, rf_part,
           rx_deadline, rx_need, rf_last>>
mvars == <<next_id, to_server, from_server, cpc, creq, attempt_ids, returned>>
besides_tvars == <<ovars, kvars, evars, avars, uvars, gvars, cvars, mvars>>
besides_kvars == <<ovars, tvars, evars, avars, uvars, gvars, cvars, mvars>>
besides_evars == <<ovars, tvars, kvars, avars, uvars, gvars, cvars, mvars>>
besides_avars == <<ovars, tvars, kvars, evars, uvars, gvars, cvars, mvars>>
besides_uvars == <<tvars, kvars, evars, avars, gvars, cvars, mvars>>
besides_gvars == <<tvars, kvars, evars, avars, uvars, cvars, mvars>>
besides_cvars == <<ovars, tvars, kvars, evars, avars, uvars, gvars, mvars>>
besides_mvars == <<ovars, tvars, kvars, evars, avars, uvars, gvars, cvars>>
yvars == <<tvars, kvars, evars, avars, uvars, gvars, cvars, mvars>>
xvars == <<pvars, bvars, dvars, rvars, yvars>>

vars == <<fvars, svars, lvars, xvars>>

---------------------------------------------------------------------------
(* Bounds of the frame model *)

\* longest string value (in characters) carried by a payload
MaxStrLen == 1
\* most key/value pairs in a payload object
MaxPairs == 2

\* most bytes one send or one recv moves
MaxChunk == 64

(* Program constants *)
HEADER_SIZE == 4
MAX_FRAME_SIZE == 4194304

---------------------------------------------------------------------------
(* JSON values.  A value is [k, v]: k the kind, v a sequence of integers   *)
(* (the characters of a string, the single number of an int, the code of a *)
(* literal: 0 false, 1 true, 2 null).  An object is a sequence of          *)
(* <<key, value>> pairs with distinct keys, in insertion order, as a       *)
(* Python dict is.                                                         *)

QUOTE == 34
BACKSLASH == 92
SPACE == 32
COMMA == 44
COLON == 58
LBRACE == 123
RBRACE == 125
ZERO == 48

\* the characters strings are made of: a letter and the double quote (which
\* json.dumps has to escape)
StrChars == {97, QUOTE}
KeyStrings == {<<97>>, <<98>>}

RECURSIVE SeqsUpTo(_, _)
SeqsUpTo(S, n) ==
    IF n = 0 THEN {<<>>}
    ELSE LET shorter == SeqsUpTo(S, n - 1)
         IN  shorter \cup {Append(s, c) : s \in {t \in shorter : Len(t) = n - 1}, c \in S}

JInt(n) == [k |-> "int", v |-> <<n>>]
JStr(s) == [k |-> "str", v |-> s]
JLit(c) == [k |-> "lit", v |-> <<c>>]

IntValues == {0, 42}
JsonValues ==
    {JInt(n) : n \in IntValues} \cup {JStr(s) : s \in SeqsUpTo(StrChars, MaxStrLen)}
        \cup {JLit(c) : c \in {0, 1, 2}}

\* objects with at most MaxPairs pairs and distinct keys (inserted in key order)
JsonObjects ==
    {o \in SeqsUpTo(KeyStrings \X JsonValues, MaxPairs) :
        \A i, j \in 1..Len(o) : i < j => o[i][1][1] < o[j][1][1]}

\* dict equality: the same keys bound to the same values, whatever the order
DictEq(a, b) == {a[i] : i \in 1..Len(a)} = {b[i] : i \in 1..Len(b)}

---------------------------------------------------------------------------
(* json.dumps(payload, ensure_ascii=False).encode("utf-8") *)

RECURSIVE Digits(_)
Digits(n) == IF n < 10 THEN <<ZERO + n>> ELSE Append(Digits(n \div 10), ZERO + (n % 10))

RECURSIVE EscapeChars(_)
EscapeChars(s) ==
    IF s = <<>> THEN <<>>
    ELSE (IF Head(s) \in {QUOTE, BACKSLASH} THEN <<BACKSLASH, Head(s)>> ELSE <<Head(s)>>)
            \o EscapeChars(Tail(s))

DumpString(s) == <<QUOTE>> \o EscapeChars(s) \o <<QUOTE>>

\* "false", "true", "null"
LitText(c) ==
    IF c = 0 THEN <<102, 97, 108, 115, 101>>
    ELSE IF c = 1 THEN <<116, 114, 117, 101>>
    ELSE <<110, 117, 108, 108>>

DumpValue(val) ==
    IF val.k = "int" THEN Digits(val.v[1])
    ELSE IF val.k = "str" THEN DumpString(val.v)
    ELSE LitText(val.v[1])

RECURSIVE DumpMembers(_)
DumpMembers(o) ==
    IF o = <<>> THEN <<>>
    ELSE DumpString(Head(o)[1]) \o <<COLON, SPACE>> \o DumpValue(Head(o)[2])
            \o (IF Tail(o) = <<>> THEN <<>> ELSE <<COMMA, SPACE>> \o DumpMembers(Tail(o)))

Dumps(o) == <<LBRACE>> \o DumpMembers(o) \o <<RBRACE>>

---------------------------------------------------------------------------
(* json.loads(body.decode("utf-8")): a recursive-descent parse.  Every     *)
(* parser returns [ok, val, pos]: pos is the index after what it consumed. *)

At(b, i) == IF i >= 1 /\ i <= Len(b) THEN b[i] ELSE -1

RECURSIVE SkipWs(_, _)
SkipWs(b, i) == IF At(b, i) = SPACE THEN SkipWs(b, i + 1) ELSE i

Fail == [ok |-> FALSE, val |-> <<>>, pos |-> 0]

RECURSIVE ParseChars(_, _, _)
ParseChars(b, i, acc) ==
    IF At(b, i) = -1 THEN Fail
    ELSE IF At(b, i) = QUOTE THEN [ok |-> TRUE, val |-> acc, pos |-> i + 1]
    ELSE IF At(b, i) = BACKSLASH
        THEN (IF At(b, i + 1) \in {QUOTE, BACKSLASH}
                THEN ParseChars(b, i + 2, Append(acc, At(b, i + 1)))
                ELSE Fail)
    ELSE ParseChars(b, i + 1, Append(acc, At(b, i)))

ParseString(b, i) == IF At(b, i) = QUOTE THEN ParseChars(b, i + 1, <<>>) ELSE Fail

IsDigit(c) == c >= ZERO /\ c <= ZERO + 9

RECURSIVE ParseDigits(_, _, _)
ParseDigits(b, i, acc) ==
    IF IsDigit(At(b, i)) THEN ParseDigits(b, i + 1, acc * 10 + (At(b, i) - ZERO))
    ELSE [ok |-> TRUE, val |-> <<acc>>, pos |-> i]

HasText(b, i, t) == \A j \in 1..Len(t) : At(b, i + j - 1) = t[j]

ParseValue(b, i) ==
    IF At(b, i) = QUOTE
        THEN LET r == ParseString(b, i)
             IN  IF r.ok THEN [ok |-> TRUE, val |-> JStr(r.val), pos |-> r.pos]
                 ELSE [ok |-> FALSE, val |-> JLit(2), pos |-> 0]
    ELSE IF IsDigit(At(b, i))
        THEN LET r == ParseDigits(b, i, 0)
             IN  [ok |-> TRUE, val |-> JInt(r.val[1]), pos |-> r.pos]
    ELSE IF \E c \in {0, 1, 2} : HasText(b, i, LitText(c))
        THEN LET c == CHOOSE d \in {0, 1, 2} : HasText(b, i, LitText(d))
             IN  [ok |-> TRUE, val |-> JLit(c), pos |-> i + Len(LitText(c))]
    ELSE [ok |-> FALSE, val |-> JLit(2), pos |-> 0]

\* a later pair with the same key replaces the earlier one, as in a dict
SetKey(o, key, val) ==
    IF \E n \in 1..Len(o) : o[n][1] = key
        THEN [n \in 1..Len(o) |-> IF o[n][1] = key THEN <<key, val>> ELSE o[n]]
        ELSE Append(o, <<key, val>>)

RECURSIVE ParseMembers(_, _, _)
ParseMembers(b, i, acc) ==
    LET key == ParseString(b, SkipWs(b, i))
    IN  IF ~key.ok THEN Fail
        ELSE LET c == SkipWs(b, key.pos)
             IN  IF At(b, c) # COLON THEN Fail
                 ELSE LET val == ParseValue(b, SkipWs(b, c + 1))
                      IN  IF ~val.ok THEN Fail
                          ELSE LET nxt == SkipWs(b, val.pos)
                                   obj == SetKey(acc, key.val, val.val)
                               IN  IF At(b, nxt) = COMMA THEN ParseMembers(b, nxt + 1, obj)
                                   ELSE IF At(b, nxt) = RBRACE
                                       THEN [ok |-> TRUE, val |-> obj, pos |-> nxt + 1]
                                   ELSE Fail

Loads(b) ==
    LET i == SkipWs(b, 1)
    IN  IF At(b, i) # LBRACE THEN Fail
        ELSE LET j == SkipWs(b, i + 1)
                 r == IF At(b, j) = RBRACE THEN [ok |-> TRUE, val |-> <<>>, pos |-> j + 1]
                      ELSE ParseMembers(b, j, <<>>)
             IN  IF r.ok /\ SkipWs(b, r.pos) = Len(b) + 1 THEN r ELSE Fail

---------------------------------------------------------------------------
(* struct.pack("<I", n) and struct.unpack("<I", header) *)

PackU32LE(n) ==
    <<n % 256, (n \div 256) % 256, (n \div 65536) % 256, (n \div 16777216) % 256>>

UnpackU32LE(h) == h[1] + 256 * h[2] + 65536 * h[3] + 16777216 * h[4]

Body == Dumps(payload)
Header == PackU32LE(Len(Body))

Take(s, n) == SubSeq(s, 1, n)
Drop(s, n) == SubSeq(s, n + 1, Len(s))

---------------------------------------------------------------------------
(* The frame exchange: write_frame on one end, read_frame on the other.    *)

\* write_frame, up to the first write_all: the size check
WriteFrameStart ==
    /\ wpc = "start"
    /\ wpc' = IF Len(Body) > MAX_FRAME_SIZE THEN "err" ELSE "hdr"
    /\ UNCHANGED <<xvars, svars, lvars, payload, stream, wsent, peerClosed, rpc, rchunks, rremaining, rlength,
                   rresult, rfault, rsplit>>

\* write_all: one sock.send, which takes n of the bytes left
WriteAllSend(n) ==
    /\ wpc \in {"hdr", "body"}
    /\ ~peerClosed
    /\ LET data == IF wpc = "hdr" THEN Header ELSE Body
       IN  /\ n \in 1..(Len(data) - wsent)
           /\ stream' = stream \o SubSeq(data, wsent + 1, wsent + n)
           /\ IF wsent + n = Len(data)
                 THEN /\ wsent' = 0
                      /\ wpc' = IF wpc = "hdr" THEN "body" ELSE "done"
                 ELSE /\ wsent' = wsent + n
                      /\ wpc' = wpc
    /\ UNCHANGED <<xvars, svars, lvars, payload, peerClosed, rpc, rchunks, rremaining, rlength, rresult, rfault,
                   rsplit>>

\* the writing end goes away before the frame is complete
PeerClose ==
    /\ wpc \in {"hdr", "body"}
    /\ ~peerClosed
    /\ peerClosed' = TRUE
    /\ UNCHANGED <<xvars, svars, lvars, payload, stream, wpc, wsent, rpc, rchunks, rremaining, rlength, rresult,
                   rfault, rsplit>>

\* read_exact: chunks.append(chunk)
JoinReversed(chunks, chunk) == chunk \o chunks
JoinChunks(chunks, chunk) == chunks \o chunk

\* read_frame after the header is complete: unpack and check the length
AfterHeader(header) ==
    LET length == UnpackU32LE(header)
    IN  IF length = 0 \/ length > MAX_FRAME_SIZE
            THEN [pc |-> "err", length |-> length, remaining |-> 0,
                  result |-> [obj |-> <<>>, code |-> "MALFORMED_FRAME"]]
            ELSE [pc |-> "body", length |-> length, remaining |-> length,
                  result |-> [obj |-> <<>>, code |-> "none"]]

\* read_frame after the body is complete: json.loads
AfterBody(body) ==
    LET r == Loads(body)
    IN  IF r.ok THEN [pc |-> "done", result |-> [obj |-> r.val, code |-> "none"]]
        ELSE [pc |-> "err", result |-> [obj |-> <<>>, code |-> "MALFORMED_FRAME"]]

\* read_exact: one sock.recv(remaining), which returns n bytes
ReadExactRecv(n) ==
    /\ rpc \in {"hdr", "body"}
    /\ n \in 1..(IF rremaining < Len(stream) THEN rremaining ELSE Len(stream))
    /\ stream' = Drop(stream, n)
    /\ rsplit' = (rsplit \/ n < rremaining)
    /\ LET got == JoinChunks(rchunks, Take(stream, n))
       IN  IF rremaining - n > 0
             THEN /\ rchunks' = got
                  /\ rremaining' = rremaining - n
                  /\ UNCHANGED <<rpc, rlength, rresult>>
             ELSE IF rpc = "hdr"
               THEN LET a == AfterHeader(got)
                    IN  /\ rpc' = a.pc
                        /\ rlength' = a.length
                        /\ rremaining' = a.remaining
                        /\ rresult' = a.result
                        /\ rchunks' = <<>>
               ELSE LET a == AfterBody(got)
                    IN  /\ rpc' = a.pc
                        /\ rresult' = a.result
                        /\ rremaining' = 0
                        /\ rchunks' = <<>>
                        /\ UNCHANGED rlength
    /\ UNCHANGED <<xvars, svars, lvars, payload, wpc, wsent, peerClosed, rfault>>

\* read_exact: recv returns b"" because the peer closed the stream
ReadExactEof ==
    /\ rpc \in {"hdr", "body"}
    /\ stream = <<>>
    /\ peerClosed
    /\ rpc' = "err"
    /\ rresult' = [obj |-> <<>>, code |-> "MALFORMED_FRAME"]
    /\ rfault' = TRUE
    /\ UNCHANGED <<xvars, svars, lvars, payload, stream, wpc, wsent, peerClosed, rchunks, rremaining, rlength,
                   rsplit>>

\* read_exact: recv raises socket.timeout while no byte is available
ReadExactTimeout ==
    /\ rpc \in {"hdr", "body"}
    /\ stream = <<>>
    /\ rpc' = "err"
    /\ rresult' = [obj |-> <<>>, code |-> "READ_TIMEOUT"]
    /\ rfault' = TRUE
    /\ UNCHANGED <<xvars, svars, lvars, payload, stream, wpc, wsent, peerClosed, rchunks, rremaining, rlength,
                   rsplit>>

---------------------------------------------------------------------------
(* The upstream session: UnrealConnection and the editor at the other end  *)
(* of the socket.                                                          *)

\* send_command calls per run
MaxCalls == 2
\* sockets the session may open per run
MaxSock == 2
\* control frames (ping, unsolicited pong) the editor initiates per call
MaxCtl == 2

Threads == {1, 2}
SockIds == 1..MaxSock

MUTATING_COMMANDS ==
    {"spawn_actor", "create_actor", "delete_actor", "set_actor_transform",
     "set_actor_property", "spawn_blueprint_actor", "create_blueprint",
     "add_component_to_blueprint", "set_component_property", "set_physics_properties",
     "compile_blueprint", "set_blueprint_property", "set_static_mesh_properties",
     "set_pawn_properties", "connect_blueprint_nodes",
     "add_blueprint_get_self_component_reference", "add_blueprint_self_reference",
     "add_blueprint_event_node", "add_blueprint_input_action_node",
     "add_blueprint_function_node", "add_blueprint_get_component_node",
     "add_blueprint_variable", "create_input_mapping", "create_umg_widget_blueprint",
     "add_text_block_to_widget", "add_button_to_widget", "bind_widget_event",
     "set_text_block_binding", "add_widget_to_viewport", "sc.status", "sc.checkout",
     "sc.add", "sc.revert", "sc.submit"}

\* the commands the callers of the model issue: a mutation, the
\* source-control read (in the mutation list, never blocked) and the health
\* ping (not a mutation)
Commands == {"compile_blueprint", "sc.status", "ping"}
\* request ids are labels the code never reads: the first call of a run takes
\* the first of them
RequestIds == {"R1", "R2"}
FirstRequestId == "R1"

\* a ping frame may carry no ts; the session then answers with its own clock
NoTs == -1
TsValues == {100, NoTs}
\* current_timestamp_ms()
NowMs == 1700

\* A frame of the editor link.  Every frame has the same fields; a field a
\* frame does not carry holds its "absent" value.  id is the number of the
\* call a command frame belongs to or a response frame answers.
Frm(type, ts, ok, id, aud, caps) ==
    [type |-> type, ts |-> ts, ok |-> ok, id |-> id, aud |-> aud, caps |-> caps]
NoFrame == Frm("none", NoTs, "absent", 0, "absent", <<>>)
HandshakeFrame == Frm("handshake", NoTs, "absent", 0, "absent", <<>>)
CapabilitiesFrame == Frm("capabilities", NoTs, "true", 0, "absent", <<>>)
CommandFrame(cmd, id) == Frm(cmd, NoTs, "absent", id, "absent", <<>>)
PongFrame(ts) == Frm("pong", ts, "absent", 0, "absent", <<>>)
PingFrame(ts) == Frm("ping", ts, "absent", 0, "absent", <<>>)

\* what send_command returns: None, an error envelope, or the frame received
NoneResult == [kind |-> "none", code |-> "", f |-> NoFrame]
ErrorResult(code) == [kind |-> "error", code |-> code, f |-> NoFrame]
FrameResult(f) == [kind |-> "frame", code |-> "", f |-> f]
\* a call in progress: sock0 is the number of sockets that existed when it
\* started, sock the socket it used, ts the ts of the pong it has to write,
\* nw the number of header and body writes it has made
NoCall == [id |-> 0, cmd |-> "", rid |-> "", sock0 |-> 0, sock |-> 0, ts |-> NoTs, nw |-> 0]

\* The ok field of a frame: the JSON true, the JSON false, absent, or a
\* value that is neither boolean nor empty (the string "no", say).
\* bool(x) of it, as `not ack.get("ok", False)` and bool(response.get("ok",
\* False)) take it:
Truthy(ok) == ok \in {"true", "other"}

\* _emit_audit: the journal line written for a response
AuditEntry(call, ok, aud) ==
    [tool |-> call.cmd,
     dryRun |-> IF aud = "absent" THEN dry_run ELSE aud = "dry",
     executed |-> aud = "executed",
     ok |-> Truthy(ok),
     call |-> call.id]

EmitAudit(call, ok, aud) ==
    IF call.cmd \in MUTATING_COMMANDS THEN Append(audit, AuditEntry(call, ok, aud))
    ELSE audit

\* send_command: the mutation gate
WriteBlockedNoException(cmd) == cmd \in MUTATING_COMMANDS /\ ~allow_write
WriteBlocked(cmd) == cmd \in MUTATING_COMMANDS /\ ~allow_write /\ cmd # "sc.status"

\* disconnect(): close the socket, forget it
\* closing socket s discards what is queued on it in either direction
CloseSock(q, s) == IF s = 0 THEN q ELSE [q EXCEPT ![s] = <<>>]

DisconnectSkipped == UNCHANGED <<connected, socket, open, sent, inbox>>
Disconnect ==
    /\ open' = open \ {socket}
    /\ socket' = 0
    /\ connected' = FALSE
    /\ sent' = CloseSock(sent, socket)
    /\ inbox' = CloseSock(inbox, socket)

Piece(part, f, t) == [part |-> part, f |-> f, by |-> t]

\* the kind of a frame the session writes: a command frame has the
\* command's name as its type
FrameKind(f) ==
    IF f.type \in {"handshake", "capabilities", "pong"} THEN f.type ELSE "command"

\* the whole frame at the head of the pieces p, NoFrame if there is none
\* (nothing unread, or a header not followed by its own body)
HeadFrame(p) ==
    IF /\ Len(p) >= 2
       /\ p[1].part = "hdr"
       /\ p[2].part = "body"
       /\ p[1].f = p[2].f
       /\ p[1].by = p[2].by
    THEN p[1].f
    ELSE NoFrame

\* The editor drops capabilities and pong frames as it reads them and sends
\* nothing back, and nothing depends on when it does: they leave the unread
\* pieces as soon as they are whole and at the head.
RECURSIVE Unread(_)
Unread(p) ==
    IF HeadFrame(p).type \in {"capabilities", "pong"} THEN Unread(SubSeq(p, 3, Len(p)))
    ELSE p

\* send_command(command, params), up to the connection check.  rid is the
\* caller's requestId; send_command has no such parameter and never sees it.
SendCommand(t, cmd, rid) ==
    /\ pc[t] = "idle"
    /\ ncalls < MaxCalls
    /\ ncalls = 0 => rid = FirstRequestId
    /\ ncalls' = ncalls + 1
    /\ LET call == [id |-> ncalls + 1, cmd |-> cmd, rid |-> rid, sock0 |-> nsock,
                    sock |-> 0, ts |-> NoTs, nw |-> 0]
       IN  /\ cur' = [cur EXCEPT ![t] = call]
           /\ consumed' = [consumed EXCEPT ![t] = <<>>]
           /\ pongs' = [pongs EXCEPT ![t] = <<>>]
           /\ IF WriteBlocked(cmd)
                 THEN /\ audit' = EmitAudit(call, "false", "dry")
                      /\ result' = [result EXCEPT ![t] = ErrorResult("WRITE_NOT_ALLOWED")]
                      /\ pc' = [pc EXCEPT ![t] = "ret"]
                 ELSE /\ audit' = audit
                      /\ result' = result
                      /\ pc' = [pc EXCEPT ![t] =
                                  IF ~connected \/ socket = 0 THEN "connect" ELSE "cmd_write"]
    /\ UNCHANGED <<xvars, fvars, lvars, cfg, conn, net, wr, done, nctl, exec, hsres, first, wrote,
                   capabilities, nsock>>

\* connect(): disconnect(), then the TCP connect succeeds
ConnectOk(t) ==
    /\ pc[t] = "connect"
    /\ nsock < MaxSock
    /\ nsock' = nsock + 1
    /\ open' = (open \ {socket}) \cup {nsock + 1}
    /\ sent' = CloseSock(sent, socket)
    /\ inbox' = CloseSock(inbox, socket)
    /\ socket' = nsock + 1
    /\ connected' = TRUE
    /\ pc' = [pc EXCEPT ![t] = "hs_write"]
    /\ UNCHANGED <<xvars, fvars, lvars, cfg, cur, wr, result, consumed, pongs, hist, capabilities,
                   audit>>

\* connect(): disconnect(), then the TCP connect is refused; send_command
\* logs the failure and returns None
ConnectRefused(t) ==
    /\ pc[t] = "connect"
    /\ Disconnect
    /\ result' = [result EXCEPT ![t] = NoneResult]
    /\ pc' = [pc EXCEPT ![t] = "ret"]
    /\ UNCHANGED <<xvars, fvars, lvars, cfg, cur, wr, consumed, pongs, hist, capabilities, nsock,
                   audit>>

\* what a caller at pc writes next, and where it goes once the frame is out
FrameToWrite(t) ==
    IF pc[t] = "hs_write" THEN HandshakeFrame
    ELSE IF pc[t] = "cap_write" THEN CapabilitiesFrame
    ELSE IF pc[t] = "cmd_write" THEN CommandFrame(cur[t].cmd, cur[t].id)
    ELSE PongFrame(cur[t].ts)

AfterWrite(p) ==
    IF p = "hs_write" THEN "hs_read"
    ELSE IF p = "cap_write" THEN "cmd_write"
    ELSE "wait"

WritingPcs == {"hs_write", "cap_write", "cmd_write", "pong_write"}


\* write_frame, first write_all: the 4-byte header goes out
WriteHeader(t) ==
    /\ pc[t] \in WritingPcs
    /\ wr[t] = NoFrame
    /\ socket # 0
    /\ sent' = [sent EXCEPT ![socket] = Append(@, Piece("hdr", FrameToWrite(t), t))]
    /\ wrote' = [wrote EXCEPT ![socket] = @ \cup ({FrameKind(FrameToWrite(t))} \ {"handshake", "pong"})]
    /\ wr' = [wr EXCEPT ![t] = FrameToWrite(t)]
    /\ cur' = [cur EXCEPT ![t].sock = IF pc[t] = "cmd_write" THEN socket ELSE @,
                          ![t].nw = @ + 1]
    /\ UNCHANGED <<xvars, fvars, lvars, cfg, conn, inbox, pc, result, consumed, pongs, ncalls, done,
                   nctl, exec, hsres, first, capabilities, nsock, audit>>

\* write_frame, second write_all: the body goes out and the caller moves on
WriteBody(t) ==
    /\ pc[t] \in WritingPcs
    /\ wr[t] # NoFrame
    /\ socket # 0
    /\ sent' = [sent EXCEPT ![socket] = Unread(Append(@, Piece("body", wr[t], t)))]
    /\ wr' = [wr EXCEPT ![t] = NoFrame]
    /\ pongs' = [pongs EXCEPT ![t] = IF pc[t] = "pong_write" THEN Append(@, wr[t].ts) ELSE @]
    /\ pc' = [pc EXCEPT ![t] = AfterWrite(pc[t])]
    /\ cur' = [cur EXCEPT ![t].nw = @ + 1]
    /\ UNCHANGED <<xvars, fvars, lvars, cfg, conn, inbox, result, consumed, hist, capabilities,
                   nsock, audit>>

\* connect(): the handshake raised; log, disconnect(), return False, and
\* send_command returns None
HandshakeFails(t, code) ==
    /\ Disconnect
    /\ hsres' = [hsres EXCEPT ![socket] = code]
    /\ result' = [result EXCEPT ![t] = NoneResult]
    /\ wr' = [wr EXCEPT ![t] = NoFrame]
    /\ pc' = [pc EXCEPT ![t] = "ret"]

\* send_command, except ProtocolError: the error envelope, the audit line,
\* disconnect()
CommandFails(t, code) ==
    /\ audit' = EmitAudit(cur[t], "false", "absent")
    /\ Disconnect
    /\ result' = [result EXCEPT ![t] = ErrorResult(code)]
    /\ cur' = [cur EXCEPT ![t].sock = socket]
    /\ wr' = [wr EXCEPT ![t] = NoFrame]
    /\ pc' = [pc EXCEPT ![t] = "ret"]

\* write_all raises WRITE_ERROR while the handshake frame is written
HsWriteFail(t) ==
    /\ pc[t] = "hs_write"
    /\ socket # 0
    /\ HandshakeFails(t, "WRITE_ERROR")
    /\ UNCHANGED <<xvars, fvars, lvars, cfg, cur, consumed, pongs, ncalls, done, nctl, exec, first,
                   wrote, capabilities, nsock, audit>>

\* _send_enforcement_capabilities: the write raised; logged and swallowed
CapWriteFail(t) ==
    /\ pc[t] = "cap_write"
    /\ socket # 0
    /\ wr' = [wr EXCEPT ![t] = NoFrame]
    /\ pc' = [pc EXCEPT ![t] = "cmd_write"]
    /\ UNCHANGED <<xvars, fvars, lvars, cfg, conn, net, cur, result, consumed, pongs, hist, capabilities, nsock,
                   audit>>

\* write_all raises WRITE_ERROR while the command frame or a pong is written
CmdWriteFail(t) ==
    /\ pc[t] \in {"cmd_write", "pong_write"}
    /\ socket # 0
    /\ CommandFails(t, "WRITE_ERROR")
    /\ UNCHANGED <<xvars, fvars, lvars, cfg, consumed, pongs, hist, capabilities, nsock>>

ReadErrors == {"READ_TIMEOUT", "MALFORMED_FRAME"}

\* _perform_handshake: the ack test
HandshakeAccepted(ack) == ack.type = "handshake/ack" /\ Truthy(ack.ok)

\* _perform_handshake: read_frame returns the first frame
HsRead(t) ==
    /\ pc[t] = "hs_read"
    /\ socket # 0
    /\ inbox[socket] # <<>>
    /\ LET ack == Head(inbox[socket])
       IN  /\ first' = [first EXCEPT ![socket] = ack]
           /\ IF HandshakeAccepted(ack)
                 THEN /\ inbox' = [inbox EXCEPT ![socket] = Tail(@)]
                      /\ capabilities' = ack.caps
                      /\ hsres' = [hsres EXCEPT ![socket] = "ok"]
                      /\ pc' = [pc EXCEPT ![t] = "cap_write"]
                      /\ UNCHANGED <<conn, sent, result, wr>>
                 ELSE /\ HandshakeFails(t, "PROTOCOL_VERSION_MISMATCH")
                      /\ UNCHANGED capabilities
    /\ UNCHANGED <<xvars, fvars, lvars, cfg, cur, consumed, pongs, ncalls, done, nctl, exec, wrote,
                   nsock, audit>>

\* _perform_handshake: read_frame raises (timeout, EOF, bad frame)
HsReadFail(t, code) ==
    /\ pc[t] = "hs_read"
    /\ socket # 0
    /\ inbox[socket] = <<>>
    /\ HandshakeFails(t, code)
    /\ UNCHANGED <<xvars, fvars, lvars, cfg, cur, consumed, pongs, ncalls, done, nctl, exec, first,
                   wrote, capabilities, nsock, audit>>

\* _handle_control_message: which frames the receive loop keeps for itself
IsControl(m) == m.type \in {"ping", "pong"}

\* _handle_control_message: the ts of the pong that answers a ping
PongTsNow(m) == NowMs
PongTs(m) == IF m.ts = NoTs THEN NowMs ELSE m.ts

\* _wait_for_message: read_frame returns a frame
WaitForMessage(t) ==
    /\ pc[t] = "wait"
    /\ socket # 0
    /\ inbox[socket] # <<>>
    /\ LET m == Head(inbox[socket])
       IN  /\ inbox' = [inbox EXCEPT ![socket] = Tail(@)]
           /\ consumed' = [consumed EXCEPT ![t] = Append(@, m)]
           /\ IF IsControl(m)
                 THEN /\ pc' = [pc EXCEPT ![t] = IF m.type = "ping" THEN "pong_write" ELSE "wait"]
                      /\ cur' = [cur EXCEPT ![t].ts = IF m.type = "ping" THEN PongTs(m) ELSE @]
                      /\ UNCHANGED <<result, audit>>
                 ELSE /\ result' = [result EXCEPT ![t] = FrameResult(m)]
                      /\ audit' = EmitAudit(cur[t], m.ok, m.aud)
                      /\ pc' = [pc EXCEPT ![t] = "ret"]
                      /\ UNCHANGED cur
    /\ UNCHANGED <<xvars, fvars, lvars, cfg, conn, sent, wr, pongs, hist, capabilities, nsock>>

\* _wait_for_message: read_frame raises (timeout, EOF, bad frame)
WaitFail(t, code) ==
    /\ pc[t] = "wait"
    /\ socket # 0
    /\ inbox[socket] = <<>>
    /\ CommandFails(t, code)
    /\ UNCHANGED <<xvars, fvars, lvars, cfg, consumed, pongs, hist, capabilities, nsock>>

\* send_command returns to its caller
Return(t) ==
    /\ pc[t] = "ret"
    /\ done' = Append(done, [id |-> cur[t].id, cmd |-> cur[t].cmd, rid |-> cur[t].rid,
                             res |-> result[t], opened |-> nsock - cur[t].sock0,
                             sock |-> cur[t].sock])
    /\ pc' = [pc EXCEPT ![t] = "idle"]
    /\ cur' = [cur EXCEPT ![t] = NoCall]
    /\ result' = [result EXCEPT ![t] = NoneResult]
    /\ consumed' = [consumed EXCEPT ![t] = <<>>]
    /\ pongs' = [pongs EXCEPT ![t] = <<>>]
    /\ nctl' = 0
    /\ UNCHANGED <<xvars, fvars, lvars, cfg, conn, net, wr, ncalls, exec, hsres, first, wrote,
                   capabilities, nsock, audit>>

\* Two callers only: the other caller's disconnect() set self.socket to None
\* under this one.  _perform_handshake raises INTERNAL_ERROR (connect returns
\* False), _send_enforcement_capabilities returns, write_frame(None) raises
\* AttributeError (INTERNAL_ERROR envelope), _wait_for_message raises
\* READ_TIMEOUT.
SocketGone(t) ==
    /\ pc[t] \in WritingPcs \cup {"hs_read", "wait"}
    /\ socket = 0
    /\ wr' = [wr EXCEPT ![t] = NoFrame]
    /\ IF pc[t] \in {"hs_write", "hs_read"}
         THEN /\ result' = [result EXCEPT ![t] = NoneResult]
              /\ pc' = [pc EXCEPT ![t] = "ret"]
              /\ UNCHANGED audit
         ELSE IF pc[t] = "cap_write"
           THEN /\ pc' = [pc EXCEPT ![t] = "cmd_write"]
                /\ UNCHANGED <<result, audit>>
           ELSE /\ result' = [result EXCEPT ![t] =
                       ErrorResult(IF pc[t] = "wait" THEN "READ_TIMEOUT" ELSE "INTERNAL_ERROR")]
                /\ audit' = EmitAudit(cur[t], "false", "absent")
                /\ pc' = [pc EXCEPT ![t] = "ret"]
    /\ UNCHANGED <<xvars, fvars, lvars, cfg, conn, net, cur, consumed, pongs, hist, capabilities, nsock>>

---------------------------------------------------------------------------
(* The editor: it reads whole frames, answers the handshake and every      *)
(* command once, and may send control frames of its own.                   *)

\* the next whole frame the editor can read on socket s
EdNext(s) == HeadFrame(sent[s])

Ack(ok, caps) == Frm("handshake/ack", NoTs, ok, 0, "absent", caps)
AckReplies ==
    {Ack("true", <<"x">>), Ack("false", <<>>), Ack("absent", <<>>),
     Frm("error", NoTs, "false", 0, "absent", <<>>)}

\* every first frame the editor may answer a handshake with
HandshakeReplies == AckReplies \cup {Ack("other", <<"x">>)}

Response(ok, id, aud) == Frm("response", NoTs, ok, id, aud, <<>>)
Responses(id) ==
    {Response("true", id, "executed"), Response("false", id, "dry")}

\* the editor's answer to a command frame: a response frame; a frame of type
\* ping may also be answered as the control frame it is, with a pong
Replies(f) ==
    IF f.type = "ping"
        THEN Responses(f.id) \cup {Frm("pong", NowMs, "absent", f.id, "absent", <<>>)}
        ELSE Responses(f.id)

EdHandshake(s, reply) ==
    /\ s \in open
    /\ EdNext(s).type = "handshake"
    /\ sent' = [sent EXCEPT ![s] = Unread(SubSeq(@, 3, Len(@)))]
    /\ inbox' = [inbox EXCEPT ![s] = Append(@, reply)]
    /\ UNCHANGED <<xvars, fvars, lvars, cfg, conn, thr, hist, capabilities, nsock, audit>>

EdCommand(s) ==
    /\ s \in open
    /\ EdNext(s).type \in Commands
    /\ sent' = [sent EXCEPT ![s] = Unread(SubSeq(@, 3, Len(@)))]
    /\ exec' = exec \cup {EdNext(s).id}
    /\ \E reply \in Replies(EdNext(s)) : inbox' = [inbox EXCEPT ![s] = Append(@, reply)]
    /\ UNCHANGED <<xvars, fvars, lvars, cfg, conn, thr, ncalls, done, nctl, hsres, first, wrote,
                   capabilities, nsock, audit>>

\* the editor initiates a control frame: a ping, or a pong nobody asked for.
\* It does so while a caller reads and ahead of its own answer, at most
\* MaxCtl times per call.
EdControl(s, f) ==
    /\ s \in open
    /\ \E t \in Threads : pc[t] \in {"hs_read", "wait"}
    /\ \A i \in 1..Len(inbox[s]) : inbox[s][i].type \in {"ping", "pong"}
    /\ nctl < MaxCtl
    /\ nctl' = nctl + 1
    /\ inbox' = [inbox EXCEPT ![s] = Append(@, f)]
    /\ UNCHANGED <<xvars, fvars, lvars, cfg, conn, sent, thr, ncalls, done, exec, hsres, first, wrote,
                   capabilities, nsock, audit>>

ControlFrames == {PingFrame(ts) : ts \in TsValues} \cup {PongFrame(NowMs)}

---------------------------------------------------------------------------
(* The rate limiter: RateLimiter.check over a clock that never runs back.  *)

\* RateLimiter.window
WINDOW == 60
\* the clock stops here
MaxTime == 122
\* largest per_minute_global and per_minute_tool configured
MaxGlobalCap == 3
MaxToolCap == 2
\* how many answers of one burst of dispatches are kept
MaxBurst == 3

Tools == {"spawn_actor", "gauntlet.run"}
\* how far the clock moves between two calls: half a window, a full one, one
\* second more
TimeSteps == {30, 60, 61}

\* _prune: drop from the left while the oldest entry is older than the window
RECURSIVE PruneAtWindow(_, _)
PruneAtWindow(hits, t) ==
    IF hits # <<>> /\ t - Head(hits) >= WINDOW THEN PruneAtWindow(Tail(hits), t) ELSE hits

RECURSIVE Prune(_, _)
Prune(hits, t) ==
    IF hits # <<>> /\ t - Head(hits) > WINDOW THEN Prune(Tail(hits), t) ELSE hits

Max0(x) == IF x > 0 THEN x ELSE 0

\* check: is the call refused, given the pruned queues
Denied(g, th) == Len(g) >= per_minute_global \/ Len(th) >= per_minute_tool

\* check: the retry delay of a refused call
RetryAfter(g, th) ==
    IF Len(g) >= per_minute_global THEN Max0(WINDOW - (now - Head(g)))
    ELSE Max0(WINDOW - (now - Head(th)))

\* int(retry) alone
RetryAfterSecTruncated(retry) == retry

\* _apply_security: int(retry) + 1; the clock of the model counts whole
\* seconds, and int() of a whole number is that number
RetryAfterSec(retry) == retry + 1

\* _apply_security: the envelope of a call the limiter refused
RateLimited(retry) ==
    [ok |-> FALSE, code |-> "RATE_LIMITED", retryAfterSec |-> RetryAfterSec(retry)]

\* _apply_security lets the call through the limiter
Passed == [ok |-> TRUE, code |-> "", retryAfterSec |-> 0]

NoBurst == [tool |-> "", empty |-> FALSE, res |-> <<>>]

\* the answers to the dispatches of one tool made one after the other with the
\* clock standing still; empty tells whether the first of them found both of
\* its windows empty.  At most MaxBurst answers are kept.
Burst(tool, g, th, answer) ==
    IF burst.tool = tool
      THEN IF Len(burst.res) < MaxBurst
             THEN [burst EXCEPT !.res = Append(@, answer)]
             ELSE burst
      ELSE [tool |-> tool, empty |-> (g = <<>> /\ th = <<>>), res |-> <<answer>>]

\* RateLimiter.check(tool), and what _apply_security makes of its answer
Check(tool) ==
  /\ UNCHANGED <<xvars, fvars, svars>>
  /\
    LET g == Prune(global_hits, now)
        th == Prune(tool_hits[tool], now)
        live == SelectSeq(allows, LAMBDA e : now - e.ts <= WINDOW)
    IN  IF Denied(g, th)
          THEN /\ global_hits' = g
               /\ tool_hits' = [tool_hits EXCEPT ![tool] = th]
               /\ last_check' = [tool |-> tool, allowed |-> FALSE, retry |-> RetryAfter(g, th),
                                 at |-> now]
               /\ allows' = live
               /\ burst' = Burst(tool, g, th, RateLimited(RetryAfter(g, th)))
               /\ UNCHANGED <<per_minute_global, per_minute_tool, now>>
          ELSE /\ global_hits' = Append(g, now)
               /\ tool_hits' = [tool_hits EXCEPT ![tool] = Append(th, now)]
               /\ last_check' = [tool |-> tool, allowed |-> TRUE, retry |-> 0, at |-> now]
               /\ allows' = Append(live, [tool |-> tool, ts |-> now])
               /\ burst' = Burst(tool, g, th, Passed)
               /\ UNCHANGED <<per_minute_global, per_minute_tool, now>>

\* time passes between two calls
Tick(d) ==
    /\ now + d <= MaxTime
    /\ now' = now + d
    /\ burst' = NoBurst
    /\ UNCHANGED <<xvars, fvars, svars, per_minute_global, per_minute_tool, global_hits, tool_hits,
                   last_check, allows>>

---------------------------------------------------------------------------
(* The role policy: RoleRules.evaluate and evaluate_patterns.  A pattern   *)
(* and a tool name are sequences of characters.                            *)

\* longest pattern, longest allow list, longest deny list, longest tool name
MaxPatLen == 2
MaxAllow == 2
MaxDeny == 1
MaxToolLen == 2

PatternChars == {"a", "*", "!", " "}
ToolChars == {"a", "b"}
Patterns == SeqsUpTo(PatternChars, MaxPatLen)
ToolNames == SeqsUpTo(ToolChars, MaxToolLen) \ {<<>>}
Role == "dev"
\* the rule sets whose patterns come from pats
RuleSets(pats) == [allow : SeqsUpTo(pats, MaxAllow), deny : SeqsUpTo(pats, MaxDeny)]

\* str.strip
RECURSIVE LStrip(_)
LStrip(str) == IF str # <<>> /\ Head(str) = " " THEN LStrip(Tail(str)) ELSE str

RECURSIVE RStrip(_)
RStrip(str) ==
    IF str # <<>> /\ str[Len(str)] = " " THEN RStrip(SubSeq(str, 1, Len(str) - 1)) ELSE str

Strip(str) == RStrip(LStrip(str))

\* fnmatch.fnmatchcase over literal characters and "*"
RECURSIVE FnMatchCase(_, _)
FnMatchCase(name, pat) ==
    IF pat = <<>> THEN name = <<>>
    ELSE IF Head(pat) = "*"
           THEN \/ FnMatchCase(name, Tail(pat))
                \/ name # <<>> /\ FnMatchCase(Tail(name), pat)
           ELSE /\ name # <<>>
                /\ Head(name) = Head(pat)
                /\ FnMatchCase(Tail(name), Tail(pat))

\* pattern.startswith("!")
IsBang(pat) == pat # <<>> /\ Head(pat) = "!"

\* [f"!{pattern}" for pattern in self.deny]
Banged(deny) == [i \in 1..Len(deny) |-> <<"!">> \o deny[i]]

\* the loop of RoleRules.evaluate that lets the first matching pattern decide
RECURSIVE EvaluateFirstMatch(_, _, _)
EvaluateFirstMatch(patterns, tool, explicit_allow) ==
    IF patterns = <<>> THEN explicit_allow
    ELSE LET stripped == Strip(Head(patterns))
             is_deny == IsBang(stripped)
             pattern == IF is_deny THEN Strip(Tail(stripped)) ELSE stripped
         IN  IF pattern = <<>> THEN EvaluateFirstMatch(Tail(patterns), tool, explicit_allow)
             ELSE IF FnMatchCase(tool, pattern) THEN ~is_deny
             ELSE EvaluateFirstMatch(Tail(patterns), tool, explicit_allow)

\* the loop of RoleRules.evaluate
RECURSIVE EvaluateLoop(_, _, _)
EvaluateLoop(patterns, tool, explicit_allow) ==
    IF patterns = <<>> THEN explicit_allow
    ELSE LET stripped == Strip(Head(patterns))
             is_deny == IsBang(stripped)
             pattern == IF is_deny THEN Strip(Tail(stripped)) ELSE stripped
         IN  IF pattern = <<>> THEN EvaluateLoop(Tail(patterns), tool, explicit_allow)
             ELSE IF FnMatchCase(tool, pattern)
                    THEN IF is_deny THEN FALSE
                         ELSE EvaluateLoop(Tail(patterns), tool, TRUE)
             ELSE EvaluateLoop(Tail(patterns), tool, explicit_allow)

\* RoleRules.evaluate(tool)
Evaluate(rules, tool) ==
    LET patterns == rules.allow \o Banged(rules.deny)
    IN  IF patterns = <<>> THEN FALSE ELSE EvaluateLoop(patterns, tool, FALSE)

\* normalize_patterns: strip each pattern, drop the empty ones
RECURSIVE NormalizePatterns(_)
NormalizePatterns(patterns) ==
    IF patterns = <<>> THEN <<>>
    ELSE IF Strip(Head(patterns)) = <<>> THEN NormalizePatterns(Tail(patterns))
    ELSE <<Strip(Head(patterns))>> \o NormalizePatterns(Tail(patterns))

\* the loop of evaluate_patterns over the normalized patterns
RECURSIVE PatternsLoop(_, _, _)
PatternsLoop(patterns, target, allowed) ==
    IF patterns = <<>> THEN allowed
    ELSE LET negate == IsBang(Head(patterns))
             candidate == IF negate THEN Strip(Tail(Head(patterns))) ELSE Head(patterns)
         IN  IF candidate = <<>> THEN PatternsLoop(Tail(patterns), target, allowed)
             ELSE IF FnMatchCase(target, candidate)
                    THEN IF negate THEN FALSE
                         ELSE PatternsLoop(Tail(patterns), target, TRUE)
             ELSE PatternsLoop(Tail(patterns), target, allowed)

\* evaluate_patterns(patterns, target)
EvaluatePatterns(patterns, target) == PatternsLoop(NormalizePatterns(patterns), target, FALSE)

\* Policy.role_rules(role): the rules of the role, RoleRules() when it has none
RoleRulesOf(role) ==
    IF role \in DOMAIN roles THEN roles[role] ELSE [allow |-> <<>>, deny |-> <<>>]

\* Policy.is_tool_allowed(role, tool)
IsToolAllowed ==
    /\ verdict = "none"
    /\ verdict' = IF Evaluate(RoleRulesOf(Role), tool_name) THEN "allowed" ELSE "denied"
    /\ UNCHANGED <<fvars, svars, lvars, yvars, bvars, dvars, rvars, roles, tool_name>>

---------------------------------------------------------------------------
(* The path sandbox: is_within and is_path_allowed.  A path is absolute    *)
(* and written as the sequence of its components; no component is a        *)
(* symbolic link.                                                          *)

\* longest path, longest root, longest allowed list, longest forbidden list
MaxPathLen == 3
MaxRootLen == 2
MaxAllowedRoots == 2
MaxForbiddenRoots == 1

Components == {"a", "b", ".."}
Paths == SeqsUpTo(Components, MaxPathLen)
Roots == SeqsUpTo(Components, MaxRootLen)

\* Path.resolve(strict=False): ".." drops the component before it, and stays
\* at "/" when there is none
RECURSIVE Resolve(_, _)
Resolve(parts, out) ==
    IF parts = <<>> THEN out
    ELSE IF Head(parts) = ".."
           THEN Resolve(Tail(parts), IF out = <<>> THEN <<>> ELSE SubSeq(out, 1, Len(out) - 1))
           ELSE Resolve(Tail(parts), Append(out, Head(parts)))

\* normalize_path(path)
NormalizePath(p) == Resolve(p, <<>>)

\* Path.relative_to(root) does not raise: root is a prefix of path, component
\* by component
RelativeTo(p, root) == Len(root) <= Len(p) /\ SubSeq(p, 1, Len(root)) = root

\* is_within comparing the paths as they are written
IsWithinAsWritten(p, roots) == \E i \in 1..Len(roots) : RelativeTo(p, roots[i])

\* is_within(path, roots)
IsWithin(p, roots) ==
    \E i \in 1..Len(roots) : RelativeTo(NormalizePath(p), NormalizePath(roots[i]))

\* is_path_allowed(path, allowed_roots, forbidden_roots)
PathAllowed(p, allowed, forbidden) ==
    LET normalized == NormalizePath(p)
    IN  IF forbidden # <<>> /\ IsWithin(normalized, forbidden) THEN FALSE
        ELSE IF allowed = <<>> THEN TRUE
        ELSE IsWithin(normalized, allowed)

IsPathAllowed ==
    /\ path_ok = "none"
    /\ path_ok' = IF PathAllowed(path, allowed_roots, forbidden_roots) THEN "yes" ELSE "no"
    /\ UNCHANGED <<fvars, svars, lvars, yvars, pvars, dvars, rvars, path, allowed_roots, forbidden_roots>>

---------------------------------------------------------------------------
(* The dedup store: DedupStore over its journal.  A journal line is what   *)
(* json.loads makes of it.                                                 *)

\* the clock at the first construction, and where it stops
Boot == 5
MaxClock == 7
\* largest ttl_sec and max_entries configured, longest journal at the first
\* construction, most puts made
MaxTtl == 1
MaxEntries == 2
MaxStartLines == 2
MaxPuts == 2

Ids == {"R1", "R2"}
DedupResponses == {"x", "y"}
\* a key the object lacks
Missing == "missing"

\* a line that is a JSON object; tsform tells whether its ts is a number, a
\* text float() refuses, or missing
Line(json, id, tsform, ts, response) ==
    [json |-> json, requestId |-> id, tsform |-> tsform, ts |-> ts, response |-> response]
ObjectLine(id, ts, response) == Line("object", id, "number", ts, response)
\* a line that is not JSON, a line that is JSON but no object, a blank line
NotJson == Line("invalid", Missing, Missing, 0, Missing)
NonObject == Line("array", Missing, Missing, 0, Missing)
Blank == Line("blank", Missing, Missing, 0, Missing)

WellFormedLines ==
    {ObjectLine(id, ts, r) : id \in Ids, ts \in {Boot, Boot - MaxTtl - 1}, r \in DedupResponses}
MalformedLines ==
    {NotJson, NonObject, Blank,
     ObjectLine(Missing, Boot, "x"), ObjectLine("R1", Boot, Missing),
     Line("object", "R1", "text", 0, "x"), Line("object", "R1", Missing, 0, "x")}
StartLines == {ObjectLine("R1", Boot, "x"), ObjectLine("R2", Boot, "y")}

Entry(key, timestamp, response) ==
    [key |-> key, timestamp |-> timestamp, response |-> response]

Keys(es) == {es[i].key : i \in 1..Len(es)}

\* self._entries[key] = _DedupEntry(timestamp, response): a key already there
\* keeps its place
SetEntry(es, key, timestamp, response) ==
    IF key \in Keys(es)
      THEN [i \in 1..Len(es) |->
              IF es[i].key = key THEN Entry(key, timestamp, response) ELSE es[i]]
      ELSE Append(es, Entry(key, timestamp, response))

\* float(payload.get("ts", 0))
TsOf(line) == IF line.tsform = Missing THEN 0 ELSE line.ts

\* _load_journal: the loop over the lines.  payload.get on a value that is no
\* object and float() of a ts that is no number raise, and nothing catches it
RECURSIVE LoadLoop(_, _, _, _)
LoadLoop(lines, es, t, ttl) ==
    IF lines = <<>> THEN [raised |-> FALSE, entries |-> es]
    ELSE LET line == Head(lines)
         IN  IF line.json \in {"blank", "invalid"} THEN LoadLoop(Tail(lines), es, t, ttl)
             ELSE IF line.json # "object" THEN [raised |-> TRUE, entries |-> es]
             ELSE IF line.tsform = "text" THEN [raised |-> TRUE, entries |-> es]
             ELSE IF line.requestId = Missing \/ line.response = Missing
               THEN LoadLoop(Tail(lines), es, t, ttl)
             ELSE IF t - TsOf(line) > ttl THEN LoadLoop(Tail(lines), es, t, ttl)
             ELSE LoadLoop(Tail(lines),
                           SetEntry(es, line.requestId, TsOf(line), line.response), t, ttl)

\* _load_journal
LoadJournal(lines, t, ttl) == LoadLoop(lines, <<>>, t, ttl)

\* _gc_locked dropping an entry as soon as ttl_sec has elapsed
GcLockedAtDeadline(es, t) == SelectSeq(es, LAMBDA e : ~(e.timestamp <= t - ttl_sec))

\* _gc_locked(now)
GcLocked(es, t) == SelectSeq(es, LAMBDA e : ~(e.timestamp < t - ttl_sec))

\* sorted(items, key=timestamp): stable, oldest first
RECURSIVE InsertSorted(_, _)
InsertSorted(sorted, e) ==
    IF sorted = <<>> THEN <<e>>
    ELSE IF e.timestamp < Head(sorted).timestamp THEN <<e>> \o sorted
    ELSE <<Head(sorted)>> \o InsertSorted(Tail(sorted), e)

RECURSIVE SortedItems(_)
SortedItems(es) ==
    IF es = <<>> THEN <<>>
    ELSE InsertSorted(SortedItems(SubSeq(es, 1, Len(es) - 1)), es[Len(es)])

\* put: the keys popped when the map has outgrown max_entries
Evicted(es) ==
    IF Len(es) > max_entries
      THEN {SortedItems(es)[i].key : i \in 1..(Len(es) - max_entries)}
      ELSE {}

NoPut == [ts |-> 0, response |-> Missing, evicted |-> FALSE, journaled |-> FALSE]
NoGet == [id |-> "", response |-> Missing, at |-> 0, put |-> NoPut]
NoDedupCall == [id |-> "", response |-> Missing, now |-> 0]

\* put(request_id, response): now = time.time(), read before the lock is taken
PutStamp(t, id, response) ==
    /\ up = "yes"
    /\ dpc[t] = "idle"
    /\ nputs < MaxPuts
    /\ nputs' = nputs + 1
    /\ dpc' = [dpc EXCEPT ![t] = "put"]
    /\ dcall' = [dcall EXCEPT ![t] = [id |-> id, response |-> response, now |-> clock]]
    /\ UNCHANGED <<fvars, svars, lvars, yvars, pvars, bvars, rvars, ttl_sec, max_entries, entries, journal,
                   clock, up, puts, last_get>>

\* put: the body under the lock; appended tells whether _append_journal wrote
\* its line or met an OSError
PutLocked(t, appended) ==
    /\ dpc[t] = "put"
    /\ LET c == dcall[t]
           set == SetEntry(GcLocked(entries, c.now), c.id, c.now, c.response)
           out == Evicted(set)
       IN  /\ entries' = SelectSeq(set, LAMBDA e : e.key \notin out)
           /\ puts' = [id \in Ids |->
                         IF id = c.id
                           THEN [ts |-> c.now, response |-> c.response,
                                 evicted |-> id \in out, journaled |-> appended]
                         ELSE IF id \in out THEN [puts[id] EXCEPT !.evicted = TRUE]
                         ELSE puts[id]]
           /\ journal' = IF appended THEN Append(journal, ObjectLine(c.id, clock, c.response))
                         ELSE journal
    /\ dpc' = [dpc EXCEPT ![t] = "idle"]
    /\ dcall' = [dcall EXCEPT ![t] = NoDedupCall]
    /\ UNCHANGED <<fvars, svars, lvars, yvars, pvars, bvars, rvars, ttl_sec, max_entries, clock, up, last_get, nputs>>

\* get(request_id), under the lock
Get(id) ==
    /\ up = "yes"
    /\ LET es == GcLocked(entries, clock)
           hit == {i \in 1..Len(es) : es[i].key = id}
       IN  /\ entries' = es
           /\ last_get' = [id |-> id,
                           response |-> IF hit = {} THEN Missing
                                        ELSE es[CHOOSE i \in hit : TRUE].response,
                           at |-> clock, put |-> puts[id]]
    /\ UNCHANGED <<fvars, svars, lvars, yvars, pvars, bvars, rvars, ttl_sec, max_entries, journal, clock, up,
                   dpc, dcall, puts, nputs>>

\* time passes
DedupTick ==
    /\ clock < MaxClock
    /\ clock' = clock + 1
    /\ UNCHANGED <<fvars, svars, lvars, yvars, pvars, bvars, rvars, ttl_sec, max_entries, entries, journal,
                   up, dpc, dcall, puts, last_get, nputs>>

\* DedupStore.__init__: the journal is replayed
Construct ==
    /\ up = "no"
    /\ LET loaded == LoadJournal(journal, clock, ttl_sec)
       IN  /\ up' = IF loaded.raised THEN "raised" ELSE "yes"
           /\ entries' = IF loaded.raised THEN <<>> ELSE loaded.entries
    /\ UNCHANGED <<fvars, svars, lvars, yvars, pvars, bvars, rvars, ttl_sec, max_entries, journal, clock,
                   dpc, dcall, puts, last_get, nputs>>

\* the process ends: the store is gone, the journal stays
Exit ==
    /\ up = "yes"
    /\ \A t \in Threads : dpc[t] = "idle"
    /\ up' = "no"
    /\ entries' = <<>>
    /\ puts' = [id \in Ids |-> NoPut]
    /\ last_get' = NoGet
    /\ UNCHANGED <<fvars, svars, lvars, yvars, pvars, bvars, rvars, ttl_sec, max_entries, journal, clock,
                   dpc, dcall, nputs>>

---------------------------------------------------------------------------
(* The recipe executor: validate_recipe, RecipeExecutor.plan and           *)
(* RecipeExecutor.execute with its TopologicalSorter and its worker pool.  *)

\* most steps in a recipe, longest needs list, largest parallelism
MaxSteps == 3
MaxNeeds == 2
MaxParallelism == 2

StepNames == {"a", "b", "c"}
StepSpec(name, needs, when) == [name |-> name, needs |-> needs, when |-> when]

Declared(steps) == [i \in 1..Len(steps) |-> steps[i].name]
Range(q) == {q[i] : i \in 1..Len(q)}

\* the needs of the step called name, as a set; none for a name not declared
NeedsOf(steps, name) ==
    UNION {Range(steps[i].needs) : i \in {j \in 1..Len(steps) : steps[j].name = name}}

\* _ensure_unique_steps
EnsureUniqueSteps(steps) ==
    \A i, j \in 1..Len(steps) : i # j => steps[i].name # steps[j].name

\* _validate_dependencies: dfs(node) meets a node it is still visiting
RECURSIVE CycleFrom(_, _, _)
CycleFrom(steps, node, visiting) ==
    \/ node \in visiting
    \/ \E neighbor \in NeedsOf(steps, node) : CycleFrom(steps, neighbor, visiting \cup {node})

\* _validate_dependencies without its cycle detection
ValidateDependenciesKnownOnly(steps) ==
    \A i \in 1..Len(steps) : Range(steps[i].needs) \subseteq Range(Declared(steps))

\* _validate_dependencies
ValidateDependencies(steps) ==
    /\ \A i \in 1..Len(steps) : Range(steps[i].needs) \subseteq Range(Declared(steps))
    /\ \A i \in 1..Len(steps) : ~CycleFrom(steps, steps[i].name, {})

\* validate_recipe, as far as the steps go
ValidateRecipe(steps) ==
    steps # <<>> /\ EnsureUniqueSteps(steps) /\ ValidateDependencies(steps)

\* the first occurrences of q, in order
RECURSIVE FirstOccurrences(_, _)
FirstOccurrences(q, seen) ==
    IF q = <<>> THEN <<>>
    ELSE IF Head(q) \in seen THEN FirstOccurrences(Tail(q), seen)
    ELSE <<Head(q)>> \o FirstOccurrences(Tail(q), seen \cup {Head(q)})

\* sorter.add(step.name, *step.needs) for every step: the nodes of the
\* sorter, in the order it first met them
RECURSIVE Mentions(_)
Mentions(steps) ==
    IF steps = <<>> THEN <<>>
    ELSE <<Head(steps).name>> \o Head(steps).needs \o Mentions(Tail(steps))

NodeOrder(steps) == FirstOccurrences(Mentions(steps), {})

\* a sorter that holds every node ready from the start
InitialReadyAll(steps) == NodeOrder(steps)

\* sorter.prepare(): the nodes without predecessors
InitialReady(steps) == SelectSeq(NodeOrder(steps), LAMBDA n : NeedsOf(steps, n) = {})

\* a sorter whose done(node) hands out every successor of node, whatever
\* else the successor waits for
NewlyReadyAny(steps, node, finished) ==
    SelectSeq(FirstOccurrences(Declared(steps), {}), LAMBDA m : node \in NeedsOf(steps, m))

\* sorter.done(node): the successors of node whose last predecessor it was,
\* in the order they were added
NewlyReady(steps, node, finished) ==
    SelectSeq(FirstOccurrences(Declared(steps), {}),
              LAMBDA m : node \in NeedsOf(steps, m) /\ NeedsOf(steps, m) \subseteq finished)

\* static_order: get_ready, yield, done, until nothing is ready
RECURSIVE Drain(_, _, _, _)
Drain(steps, ready, finished, out) ==
    IF ready = <<>> THEN out
    ELSE LET node == Head(ready)
         IN  Drain(steps, Tail(ready) \o NewlyReady(steps, node, finished \cup {node}),
                   finished \cup {node}, Append(out, node))

\* list(sorter.static_order()); prepare() raises CycleError on a cycle
StaticOrder(steps) ==
    LET order == Drain(steps, InitialReady(steps), {}, <<>>)
    IN  IF Len(order) < Len(NodeOrder(steps))
          THEN [called |-> TRUE, raised |-> TRUE, order |-> <<>>]
          ELSE [called |-> TRUE, raised |-> FALSE, order |-> order]

NoPlan == [called |-> FALSE, raised |-> FALSE, order |-> <<>>]

\* load_recipe_file: validate_recipe(recipe_body)
Validate ==
    /\ valid = "none"
    /\ valid' = IF ValidateRecipe(recipe) THEN "yes" ELSE "no"
    /\ UNCHANGED <<fvars, svars, lvars, yvars, pvars, bvars, dvars, sched, rhist, recipe, plan_out,
                   parallelism, continue_on_error>>

\* RecipeExecutor.plan()
Plan ==
    /\ valid = "yes"
    /\ ~plan_out.called
    /\ epc = "idle"
    /\ plan_out' = StaticOrder(recipe)
    /\ UNCHANGED <<fvars, svars, lvars, yvars, pvars, bvars, dvars, sched, rhist, recipe, valid,
                   parallelism, continue_on_error>>

NoResult == [ok |-> FALSE, skipped |-> FALSE, set |-> FALSE]
StepResult(ok, skipped) == [ok |-> ok, skipped |-> skipped, set |-> TRUE]
NotStarted == [began |-> FALSE, published |-> {}]

StepOf(name) == recipe[CHOOSE i \in 1..Len(recipe) : recipe[i].name = name]
Published == {n \in StepNames : context_steps[n].set}
Max1(n) == IF n > 1 THEN n ELSE 1

\* execute: what becomes of a ready step, the dependency test before the
\* condition
DecideDependenciesFirst(step, res) ==
    IF \E dep \in Range(step.needs) : res[dep].set /\ ~res[dep].ok THEN "skipped-failed"
    ELSE IF ~step.when THEN "skipped"
    ELSE "submit"

\* execute: what becomes of a ready step
Decide(step, res) ==
    IF ~step.when THEN "skipped"
    ELSE IF \E dep \in Range(step.needs) : res[dep].set /\ ~res[dep].ok THEN "skipped-failed"
    ELSE "submit"

\* execute: for name in ready, over the state st of the scheduler
RECURSIVE ForReady(_, _)
ForReady(ready, st) ==
    IF ready = <<>> THEN st
    ELSE LET name == Head(ready)
             what == Decide(StepOf(name), st.results)
             skip == StepResult(what = "skipped", TRUE)
         IN  IF what = "submit"
               THEN ForReady(Tail(ready),
                             [st EXCEPT !.queue = Append(@, name),
                                        !.fut[name] = "pending",
                                        !.futures = @ \cup {name}])
               ELSE ForReady(Tail(ready),
                             [st EXCEPT !.results[name] = skip,
                                        !.context_steps[name] = skip,
                                        !.failed = @ \/ what = "skipped-failed",
                                        !.done_nodes = @ \cup {name},
                                        !.ready_nodes =
                                            @ \o NewlyReady(recipe, name,
                                                            st.done_nodes \cup {name})])

\* execute is called: the sorter is filled and prepared
Execute ==
    /\ valid = "yes"
    /\ epc = "idle"
    /\ epc' = "loop"
    /\ ready_nodes' = InitialReady(recipe)
    /\ UNCHANGED <<fvars, svars, lvars, yvars, pvars, bvars, dvars, rcp, rhist, done_nodes, queue, fut,
                   futures, done_set, results, context_steps, failed, summary_ok>>

\* the test of the loop's end with its second half negated
LoopEndsWhileWaiting(ready, fs) == ready = <<>> /\ fs # {}

\* execute: if not ready and not futures: break
LoopEnds(ready, fs) == ready = <<>> /\ fs = {}

\* execute: one turn of the loop up to wait()
Schedule ==
    /\ epc = "loop"
    /\ IF LoopEnds(ready_nodes, futures)
         THEN /\ epc' = "finish"
              /\ UNCHANGED <<ready_nodes, done_nodes, queue, fut, futures, results,
                             context_steps, failed>>
         ELSE LET st == ForReady(ready_nodes,
                                 [results |-> results, context_steps |-> context_steps,
                                  failed |-> failed, done_nodes |-> done_nodes,
                                  ready_nodes |-> <<>>, queue |-> queue, fut |-> fut,
                                  futures |-> futures])
              IN  /\ results' = st.results
                  /\ context_steps' = st.context_steps
                  /\ failed' = st.failed
                  /\ done_nodes' = st.done_nodes
                  /\ ready_nodes' = st.ready_nodes
                  /\ queue' = st.queue
                  /\ fut' = st.fut
                  /\ futures' = st.futures
                  /\ epc' = IF st.futures = {} THEN "loop" ELSE "wait"
    /\ UNCHANGED <<fvars, svars, lvars, yvars, pvars, bvars, dvars, rcp, rhist, done_set, summary_ok>>

\* a worker thread picks the next work item up; a cancelled one is dropped,
\* any other begins _run_step and its tool call
WorkerPick ==
    /\ queue # <<>>
    /\ Cardinality({n \in StepNames : fut[n] = "running"}) < Max1(parallelism)
    /\ queue' = Tail(queue)
    /\ LET name == Head(queue)
       IN  IF fut[name] = "cancelled"
             THEN UNCHANGED <<fut, started, late>>
             ELSE /\ fut' = [fut EXCEPT ![name] = "running"]
                  /\ started' = [started EXCEPT ![name] =
                                    [began |-> TRUE, published |-> Published]]
                  /\ late' = IF aborted THEN late \cup {name} ELSE late
    /\ UNCHANGED <<fvars, svars, lvars, yvars, pvars, bvars, dvars, rcp, epc, ready_nodes, done_nodes,
                   futures, done_set, results, context_steps, failed, summary_ok, aborted>>

\* _run_step returns: the tool answered ok, or answered an error or raised
RunStepReturns(name, ok) ==
    /\ fut[name] = "running"
    /\ fut' = [fut EXCEPT ![name] = IF ok THEN "ok" ELSE "error"]
    /\ obtained' = obtained \cup {name}
    /\ UNCHANGED <<fvars, svars, lvars, besides_uvars, pvars, bvars, dvars, rcp, rhist, epc,
                   ready_nodes, done_nodes, queue, futures, done_set, results, context_steps,
                   failed, summary_ok, audit_actions>>

\* execute: wait(futures, FIRST_COMPLETED) returns the futures that are done
Wait ==
    /\ epc = "wait"
    /\ \E n \in futures : fut[n] \in {"ok", "error"}
    /\ done_set' = {n \in futures : fut[n] \in {"ok", "error"}}
    /\ epc' = "observe"
    /\ UNCHANGED <<fvars, svars, lvars, yvars, pvars, bvars, dvars, rcp, rhist, ready_nodes, done_nodes,
                   queue, fut, futures, results, context_steps, failed, summary_ok>>

\* pending.cancel() for the futures of names: one not yet picked up is cancelled
CancelNothing(names) == fut

Cancel(names) ==
    [n \in StepNames |-> IF n \in names /\ fut[n] = "pending" THEN "cancelled" ELSE fut[n]]

\* response["audit"]["actions"] of a step's response: every response, ok or
\* not, reports one action, named after its step
AuditActionsOf(name) == <<name>>

\* failed, were it assigned the outcome of the last step looked at
FailedOfLast(f, ok) == ~ok

\* execute: failed after a step result with this ok, not skipped, was read
FailedAfter(f, ok) == f \/ ~ok

\* execute: for future in done, one future
Observe(name) ==
    /\ epc = "observe"
    /\ name \in done_set
    /\ results' = [results EXCEPT ![name] = StepResult(fut[name] = "ok", FALSE)]
    /\ context_steps' = [context_steps EXCEPT ![name] = StepResult(fut[name] = "ok", FALSE)]
    /\ done_nodes' = done_nodes \cup {name}
    /\ ready_nodes' = ready_nodes \o NewlyReady(recipe, name, done_nodes \cup {name})
    /\ failed' = FailedAfter(failed, fut[name] = "ok")
    /\ IF fut[name] = "error" /\ ~continue_on_error
         THEN /\ fut' = Cancel(futures \ {name})
              /\ futures' = {}
              /\ done_set' = {}
              /\ aborted' = TRUE
              /\ epc' = "finish"
              /\ UNCHANGED audit_actions
         ELSE /\ futures' = futures \ {name}
              /\ done_set' = done_set \ {name}
              /\ epc' = IF done_set \ {name} = {} THEN "loop" ELSE "observe"
              /\ audit_actions' = audit_actions \o AuditActionsOf(name)
              /\ UNCHANGED <<fut, aborted>>
    /\ UNCHANGED <<fvars, svars, lvars, besides_uvars, pvars, bvars, dvars, rcp, queue, summary_ok,
                   started, late, obtained>>

\* execute: executor.shutdown(wait=True) has returned; the steps without a
\* result are reported skipped and the summary is built
Finish ==
    /\ epc = "finish"
    /\ \A n \in StepNames : fut[n] \notin {"pending", "running"}
    /\ queue' = <<>>
    /\ results' = [n \in StepNames |->
                     IF n \in Range(Declared(recipe)) /\ ~results[n].set
                       THEN StepResult(FALSE, TRUE) ELSE results[n]]
    /\ summary_ok' =
          IF failed \/ \E n \in Range(Declared(recipe)) : ~results[n].set THEN "false" ELSE "true"
    /\ failed' = (failed \/ \E n \in Range(Declared(recipe)) : ~results[n].set)
    /\ epc' = "end"
    /\ UNCHANGED <<fvars, svars, lvars, yvars, pvars, bvars, dvars, rcp, rhist, ready_nodes, done_nodes,
                   fut, futures, done_set, context_steps>>

---------------------------------------------------------------------------
(* Initial states *)

\* no frame exchange in progress yet: write_frame is about to be given obj
FrameStart(obj) ==
    /\ payload = obj
    /\ stream = <<>>
    /\ wpc = "start"
    /\ wsent = 0
    /\ peerClosed = FALSE
    /\ rpc = "hdr"
    /\ rchunks = <<>>
    /\ rremaining = HEADER_SIZE
    /\ rlength = 0
    /\ rresult = [obj |-> <<>>, code |-> "none"]
    /\ rfault = FALSE
    /\ rsplit = FALSE

\* UnrealConnection.__init__ under the given enforcement configuration
SessionStart(aw, dr) ==
    /\ allow_write = aw
    /\ dry_run = dr
    /\ connected = FALSE
    /\ socket = 0
    /\ capabilities = <<>>
    /\ nsock = 0
    /\ open = {}
    /\ sent = [s \in SockIds |-> <<>>]
    /\ inbox = [s \in SockIds |-> <<>>]
    /\ audit = <<>>
    /\ pc = [t \in Threads |-> "idle"]
    /\ cur = [t \in Threads |-> NoCall]
    /\ wr = [t \in Threads |-> NoFrame]
    /\ result = [t \in Threads |-> NoneResult]
    /\ consumed = [t \in Threads |-> <<>>]
    /\ pongs = [t \in Threads |-> <<>>]
    /\ ncalls = 0
    /\ done = <<>>
    /\ nctl = 0
    /\ exec = {}
    /\ hsres = [s \in SockIds |-> "none"]
    /\ first = [s \in SockIds |-> NoFrame]
    /\ wrote = [s \in SockIds |-> {}]

\* RateLimiter.__init__ under the given caps
RateStart(capG, capT) ==
    /\ per_minute_global = capG
    /\ per_minute_tool = capT
    /\ global_hits = <<>>
    /\ tool_hits = [tool \in Tools |-> <<>>]
    /\ now = 0
    /\ last_check = [tool |-> "", allowed |-> TRUE, retry |-> 0, at |-> 0]
    /\ allows = <<>>
    /\ burst = NoBurst

\* Policy with the given roles, before tool is dispatched
PolicyStart(rs, tool) ==
    /\ roles = rs
    /\ tool_name = tool
    /\ verdict = "none"

\* the sandbox with the given roots, before path is checked
SandboxStart(p, allowed, forbidden) ==
    /\ path = p
    /\ allowed_roots = allowed
    /\ forbidden_roots = forbidden
    /\ path_ok = "none"

\* the process starts with lines in the journal; DedupStore(ttl, journal_path,
\* cap) is about to be called
DedupStart(ttl, cap, lines) ==
    /\ ttl_sec = ttl
    /\ max_entries = cap
    /\ journal = lines
    /\ clock = Boot
    /\ up = "no"
    /\ entries = <<>>
    /\ dpc = [t \in Threads |-> "idle"]
    /\ dcall = [t \in Threads |-> NoDedupCall]
    /\ puts = [id \in Ids |-> NoPut]
    /\ last_get = NoGet
    /\ nputs = 0

\* RecipeExecutor(client, loaded, variables) over the steps; v tells whether
\* validate_recipe has been through them
RecipeStart(steps, v, par, coe) ==
    /\ recipe = steps
    /\ valid = v
    /\ plan_out = NoPlan
    /\ parallelism = par
    /\ continue_on_error = coe
    /\ epc = "idle"
    /\ ready_nodes = <<>>
    /\ done_nodes = {}
    /\ queue = <<>>
    /\ fut = [n \in StepNames |-> "none"]
    /\ futures = {}
    /\ done_set = {}
    /\ results = [n \in StepNames |-> NoResult]
    /\ context_steps = [n \in StepNames |-> NoResult]
    /\ failed = FALSE
    /\ summary_ok = "none"
    /\ started = [n \in StepNames |-> NotStarted]
    /\ aborted = FALSE
    /\ late = {}

---------------------------------------------------------------------------
(* Specifications *)

\* the StepResult of _run_step: its ok and the code of its response
NoStepResult == [set |-> FALSE, ok |-> FALSE, code |-> ""]

RetryStart(ma, dr) ==
    /\ max_attempts = ma
    /\ default_retry = dr
    /\ invocations = <<>>
    /\ step_result = NoStepResult

\* a codec call that has not been made
NotCalled == [raised |-> "none", code |-> "none"]

CodecStart(c, n, w) ==
    /\ codec = c
    /\ body_len = n
    /\ wire = w
    /\ wres = NotCalled
    /\ rres = NotCalled

\* no response yet
NoEnvelope == [set |-> FALSE, ok |-> FALSE, error |-> "none"]

EnvelopeStart(tool, v, ce, ps) ==
    /\ wrapper = tool
    /\ violation = v
    /\ config_error = ce
    /\ procs = ps
    /\ envelope = NoEnvelope

\* AuditSigner.__init__
AuditStart(s, payload_object) ==
    /\ secret = s
    /\ record = payload_object
    /\ wallclock = 0
    /\ nticks = 0
    /\ signed = <<>>
    /\ recent = <<>>
    /\ verifies = <<>>

\* execute: audit_actions before the loop
SummaryAuditStart(actions) ==
    /\ audit_actions = actions
    /\ obtained = {}

\* no dispatch yet
NoRequest == [tool |-> "", size |-> 0, array |-> 0, schema_error |-> FALSE, path |-> <<>>]
NoAnswer == [code |-> "none", executed |-> FALSE]

\* the module is imported: _POLICY_LOADER.load() reads the document, which
\* becomes _CURRENT_POLICY (the limiter is built from its limits)
ServerStart(doc) ==
    /\ policy_file = doc
    /\ loader_policy = doc
    /\ current_policy = doc
    /\ request = NoRequest
    /\ gate_answer = NoAnswer
    /\ ndispatch = 0

\* _wait_for_message is entered at time 0 and calls read_frame
NoReadFrame == [set |-> FALSE, timeout |-> 0, took |-> 0]

WaitStart(idle) ==
    /\ mono = 0
    /\ wfm_deadline = idle
    /\ wfm_pc = "read"
    /\ wfm_end = 0
    /\ nframes = 0
    /\ rf_timeout = idle
    /\ rf_start = 0
    /\ rf_part = "header"
    /\ rx_deadline = idle
    /\ rx_need = HEADER_SIZE
    /\ rf_last = NoReadFrame

\* the step workers that share the client
Workers == {1, 2}
NothingReturned == [request |-> 0, response |-> 0]

\* a connected client, no call begun
ClientStart(ids) ==
    /\ next_id = ids
    /\ to_server = <<>>
    /\ from_server = <<>>
    /\ cpc = [w \in Workers |-> "idle"]
    /\ creq = [w \in Workers |-> 0]
    /\ attempt_ids = [w \in Workers |-> <<>>]
    /\ returned = [w \in Workers |-> NothingReturned]

FrameNext ==
    \/ WriteFrameStart
    \/ \E n \in 1..MaxChunk : WriteAllSend(n)
    \/ PeerClose
    \/ \E n \in 1..MaxChunk : ReadExactRecv(n)
    \/ ReadExactEof
    \/ ReadExactTimeout

\* the session and the limiter stay as constructed under the built-in
\* defaults of EnforcementConfig
FrameInit ==
    \E obj \in JsonObjects :
        FrameStart(obj) /\ SessionStart(FALSE, TRUE) /\ RateStart(MaxGlobalCap, MaxToolCap)
        /\ PolicyStart(<<>>, <<"a">>) /\ SandboxStart(<<>>, <<>>, <<>>)
        /\ DedupStart(MaxTtl, MaxEntries, <<>>) /\ ClientStart(0) /\ WaitStart(0)
        /\ ServerStart(<<>>)
        /\ SummaryAuditStart(<<>>)
        /\ AuditStart("k1", <<>>) /\ EnvelopeStart("gauntlet.run", "none", FALSE, <<>>)
        /\ CodecStart("server", 1, <<>>) /\ RetryStart(0, 1)
        /\ RecipeStart(<<>>, "none", 1, FALSE)

SpecFrame == FrameInit /\ [][FrameNext]_vars

\* one caller of send_command
Caller(t) ==
    \/ \E cmd \in Commands, rid \in RequestIds : SendCommand(t, cmd, rid)
    \/ ConnectOk(t)
    \/ ConnectRefused(t)
    \/ WriteHeader(t)
    \/ WriteBody(t)
    \/ HsWriteFail(t)
    \/ CapWriteFail(t)
    \/ CmdWriteFail(t)
    \/ HsRead(t)
    \/ \E code \in ReadErrors : HsReadFail(t, code)
    \/ WaitForMessage(t)
    \/ \E code \in ReadErrors : WaitFail(t, code)
    \/ Return(t)

Editor ==
    \/ \E s \in SockIds, reply \in AckReplies : EdHandshake(s, reply)
    \/ \E s \in SockIds : EdCommand(s)
    \/ \E s \in SockIds, f \in ControlFrames : EdControl(s, f)

Init ==
    \E aw, dr \in BOOLEAN :
        FrameStart(<<>>) /\ SessionStart(aw, dr) /\ RateStart(MaxGlobalCap, MaxToolCap)
        /\ PolicyStart(<<>>, <<"a">>) /\ SandboxStart(<<>>, <<>>, <<>>)
        /\ DedupStart(MaxTtl, MaxEntries, <<>>) /\ ClientStart(0) /\ WaitStart(0)
        /\ ServerStart(<<>>)
        /\ SummaryAuditStart(<<>>)
        /\ AuditStart("k1", <<>>) /\ EnvelopeStart("gauntlet.run", "none", FALSE, <<>>)
        /\ CodecStart("server", 1, <<>>) /\ RetryStart(0, 1)
        /\ RecipeStart(<<>>, "none", 1, FALSE)

Next ==
    \/ Caller(1)
    \/ Editor

Spec == Init /\ [][Next]_vars

\* Two callers share the one connection.  The editor answers every
\* handshake with an accepting ack and every command with a response, sends
\* no control frame, and the only failure is a read that times out: what goes
\* wrong below is the callers' doing.
ConcCaller(t) ==
    \/ \E rid \in RequestIds : SendCommand(t, "compile_blueprint", rid)
    \/ ConnectOk(t)
    \/ WriteHeader(t)
    \/ WriteBody(t)
    \/ HsRead(t)
    \/ WaitForMessage(t)
    \/ WaitFail(t, "READ_TIMEOUT")
    \/ Return(t)
    \/ SocketGone(t)

ConcEditor ==
    \/ \E s \in SockIds : EdHandshake(s, Ack("true", <<"x">>))
    \/ \E s \in SockIds : EdCommand(s)

ConcInit == FrameStart(<<>>) /\ SessionStart(TRUE, FALSE) /\ RateStart(MaxGlobalCap, MaxToolCap)
        /\ PolicyStart(<<>>, <<"a">>) /\ SandboxStart(<<>>, <<>>, <<>>)
        /\ DedupStart(MaxTtl, MaxEntries, <<>>) /\ ClientStart(0) /\ WaitStart(0)
        /\ ServerStart(<<>>)
        /\ SummaryAuditStart(<<>>)
        /\ AuditStart("k1", <<>>) /\ EnvelopeStart("gauntlet.run", "none", FALSE, <<>>)
        /\ CodecStart("server", 1, <<>>) /\ RetryStart(0, 1)
        /\ RecipeStart(<<>>, "none", 1, FALSE)

ConcNext ==
    \/ \E t \in Threads : ConcCaller(t)
    \/ ConcEditor

SpecConc == ConcInit /\ [][ConcNext]_vars

\* One caller that only pings, against an editor that may answer the
\* handshake with any first frame.
HsCaller(t) ==
    \/ SendCommand(t, "ping", FirstRequestId)
    \/ ConnectOk(t)
    \/ WriteHeader(t)
    \/ WriteBody(t)
    \/ HsWriteFail(t)
    \/ CapWriteFail(t)
    \/ HsRead(t)
    \/ HsReadFail(t, "READ_TIMEOUT")
    \/ WaitForMessage(t)
    \/ WaitFail(t, "READ_TIMEOUT")
    \/ Return(t)

HsEditor ==
    \/ \E s \in SockIds, reply \in HandshakeReplies : EdHandshake(s, reply)
    \/ \E s \in SockIds : EdCommand(s)
    \/ \E s \in SockIds, f \in ControlFrames : EdControl(s, f)

HsNext ==
    \/ HsCaller(1)
    \/ HsEditor

SpecHs == ConcInit /\ [][HsNext]_vars

RateNext ==
    \/ \E tool \in Tools : Check(tool)
    \/ \E d \in TimeSteps : Tick(d)

RateInit ==
    \E capG \in 1..MaxGlobalCap, capT \in 1..MaxToolCap :
        FrameStart(<<>>) /\ SessionStart(FALSE, TRUE) /\ RateStart(capG, capT)
        /\ PolicyStart(<<>>, <<"a">>) /\ SandboxStart(<<>>, <<>>, <<>>)
        /\ DedupStart(MaxTtl, MaxEntries, <<>>) /\ ClientStart(0) /\ WaitStart(0)
        /\ ServerStart(<<>>)
        /\ SummaryAuditStart(<<>>)
        /\ AuditStart("k1", <<>>) /\ EnvelopeStart("gauntlet.run", "none", FALSE, <<>>)
        /\ CodecStart("server", 1, <<>>) /\ RetryStart(0, 1)
        /\ RecipeStart(<<>>, "none", 1, FALSE)

SpecRate == RateInit /\ [][RateNext]_vars

PolicyNext == IsToolAllowed

\* the role has no rules, or any rule set within the bounds
PolicyInit ==
    \E rs \in {<<>>} \cup {[r \in {Role} |-> rules] : rules \in RuleSets(Patterns)}, tool \in ToolNames :
        FrameStart(<<>>) /\ SessionStart(FALSE, TRUE) /\ RateStart(MaxGlobalCap, MaxToolCap)
        /\ PolicyStart(rs, tool) /\ SandboxStart(<<>>, <<>>, <<>>)
        /\ DedupStart(MaxTtl, MaxEntries, <<>>) /\ ClientStart(0) /\ WaitStart(0)
        /\ ServerStart(<<>>)
        /\ SummaryAuditStart(<<>>)
        /\ AuditStart("k1", <<>>) /\ EnvelopeStart("gauntlet.run", "none", FALSE, <<>>)
        /\ CodecStart("server", 1, <<>>) /\ RetryStart(0, 1)
        /\ RecipeStart(<<>>, "none", 1, FALSE)

SpecPolicy == PolicyInit /\ [][PolicyNext]_vars

SandboxNext == IsPathAllowed

SandboxInit ==
    \E p \in Paths, allowed \in SeqsUpTo(Roots, MaxAllowedRoots),
       forbidden \in SeqsUpTo(Roots, MaxForbiddenRoots) :
        FrameStart(<<>>) /\ SessionStart(FALSE, TRUE) /\ RateStart(MaxGlobalCap, MaxToolCap)
        /\ PolicyStart(<<>>, <<"a">>) /\ SandboxStart(p, allowed, forbidden)
        /\ DedupStart(MaxTtl, MaxEntries, <<>>) /\ ClientStart(0) /\ WaitStart(0)
        /\ ServerStart(<<>>)
        /\ SummaryAuditStart(<<>>)
        /\ AuditStart("k1", <<>>) /\ EnvelopeStart("gauntlet.run", "none", FALSE, <<>>)
        /\ CodecStart("server", 1, <<>>) /\ RetryStart(0, 1)
        /\ RecipeStart(<<>>, "none", 1, FALSE)

SpecSandbox == SandboxInit /\ [][SandboxNext]_vars

DedupNext ==
    \/ \E t \in Threads, id \in Ids, response \in DedupResponses : PutStamp(t, id, response)
    \/ \E t \in Threads, appended \in BOOLEAN : PutLocked(t, appended)
    \/ \E id \in Ids : Get(id)
    \/ DedupTick
    \/ Construct
    \/ Exit

DedupInit ==
    \E ttl \in 1..MaxTtl, cap \in 1..MaxEntries, lines \in SeqsUpTo(StartLines, MaxStartLines) :
        FrameStart(<<>>) /\ SessionStart(FALSE, TRUE) /\ RateStart(MaxGlobalCap, MaxToolCap)
        /\ PolicyStart(<<>>, <<"a">>) /\ SandboxStart(<<>>, <<>>, <<>>)
        /\ DedupStart(ttl, cap, lines) /\ ClientStart(0) /\ WaitStart(0) /\ ServerStart(<<>>)
        /\ SummaryAuditStart(<<>>)
        /\ AuditStart("k1", <<>>) /\ EnvelopeStart("gauntlet.run", "none", FALSE, <<>>)
        /\ CodecStart("server", 1, <<>>) /\ RetryStart(0, 1)
        /\ RecipeStart(<<>>, "none", 1, FALSE)

SpecDedup == DedupInit /\ [][DedupNext]_vars

JournalNext == Construct

\* any journal of well-formed and malformed lines
JournalInit ==
    \E ttl \in 1..MaxTtl, lines \in SeqsUpTo(WellFormedLines \cup MalformedLines, MaxStartLines) :
        FrameStart(<<>>) /\ SessionStart(FALSE, TRUE) /\ RateStart(MaxGlobalCap, MaxToolCap)
        /\ PolicyStart(<<>>, <<"a">>) /\ SandboxStart(<<>>, <<>>, <<>>)
        /\ DedupStart(ttl, MaxEntries, lines) /\ ClientStart(0) /\ WaitStart(0)
        /\ ServerStart(<<>>)
        /\ SummaryAuditStart(<<>>)
        /\ AuditStart("k1", <<>>) /\ EnvelopeStart("gauntlet.run", "none", FALSE, <<>>)
        /\ CodecStart("server", 1, <<>>) /\ RetryStart(0, 1)
        /\ RecipeStart(<<>>, "none", 1, FALSE)

SpecJournal == JournalInit /\ [][JournalNext]_vars

PlanNext == Validate \/ Plan

\* the steps a recipe file can declare, valid or not
StepSpecs == {StepSpec(n, needs, TRUE) : n \in StepNames, needs \in SeqsUpTo(StepNames, MaxNeeds)}

PlanInit ==
    \E steps \in SeqsUpTo(StepSpecs, MaxSteps) :
        FrameStart(<<>>) /\ SessionStart(FALSE, TRUE) /\ RateStart(MaxGlobalCap, MaxToolCap)
        /\ PolicyStart(<<>>, <<"a">>) /\ SandboxStart(<<>>, <<>>, <<>>)
        /\ DedupStart(MaxTtl, MaxEntries, <<>>) /\ ClientStart(0) /\ WaitStart(0)
        /\ ServerStart(<<>>)
        /\ SummaryAuditStart(<<>>)
        /\ AuditStart("k1", <<>>) /\ EnvelopeStart("gauntlet.run", "none", FALSE, <<>>)
        /\ CodecStart("server", 1, <<>>) /\ RetryStart(0, 1)
        /\ RecipeStart(steps, "none", 1, FALSE)

SpecPlan == PlanInit /\ [][PlanNext]_vars

RecipeNext ==
    \/ Execute
    \/ Schedule
    \/ WorkerPick
    \/ \E n \in StepNames, ok \in BOOLEAN : RunStepReturns(n, ok)
    \/ Wait
    \/ \E n \in StepNames : Observe(n)
    \/ Finish

\* the validated recipes of steps a, b, c declared in this order
Needs == {q \in SeqsUpTo(StepNames, MaxNeeds) : Len(q) = Cardinality(Range(q))}

RecipeInit ==
    \E na, nb, nc \in Needs, wa, wb, wc \in BOOLEAN, par \in 1..MaxParallelism,
       coe \in BOOLEAN :
        /\ ValidateRecipe(<<StepSpec("a", na, wa), StepSpec("b", nb, wb), StepSpec("c", nc, wc)>>)
        /\ FrameStart(<<>>) /\ SessionStart(FALSE, TRUE) /\ RateStart(MaxGlobalCap, MaxToolCap)
        /\ PolicyStart(<<>>, <<"a">>) /\ SandboxStart(<<>>, <<>>, <<>>)
        /\ DedupStart(MaxTtl, MaxEntries, <<>>) /\ ClientStart(0) /\ WaitStart(0)
        /\ ServerStart(<<>>)
        /\ SummaryAuditStart(<<>>)
        /\ AuditStart("k1", <<>>) /\ EnvelopeStart("gauntlet.run", "none", FALSE, <<>>)
        /\ CodecStart("server", 1, <<>>) /\ RetryStart(0, 1)
        /\ RecipeStart(<<StepSpec("a", na, wa), StepSpec("b", nb, wb), StepSpec("c", nc, wc)>>,
                       "yes", par, coe)

SpecRecipe == RecipeInit /\ [][RecipeNext]_vars

---------------------------------------------------------------------------
\* C1: frame round trip.  Whenever read_frame returns, the object it returns
\* equals the object given to write_frame, however send and recv split the
\* bytes; and read_frame fails only when the stream ended or timed out.
FrameRoundTrip ==
    /\ rpc = "done" => DictEq(rresult.obj, payload)
    /\ rpc = "err" => rfault

\* a two-pair object was read back after at least one short recv
FrameRoundTripWitness ==
    /\ rpc = "done"
    /\ rsplit
    /\ Len(payload) = 2
    /\ \E i \in 1..2 : payload[i][2].k = "str" /\ payload[i][2].v = <<QUOTE>>

---------------------------------------------------------------------------
\* the journal lines of call number id
AuditLinesOf(id) == {j \in 1..Len(audit) : audit[j].call = id}

\* C2: the write gate.  With allow_write false, a call of a mutation other
\* than sc.status that is about to return returns WRITE_NOT_ALLOWED, opened
\* no socket, wrote nothing, and has exactly one journal line, with executed
\* false and dryRun true; a call of sc.status never returns
\* WRITE_NOT_ALLOWED, and what it returns from the editor answers a command
\* frame it wrote.
WriteGate ==
    \A t \in Threads :
        pc[t] = "ret" /\ ~allow_write =>
            /\ cur[t].cmd \in MUTATING_COMMANDS \ {"sc.status"} =>
                  /\ result[t].kind = "error"
                  /\ result[t].code = "WRITE_NOT_ALLOWED"
                  /\ nsock = cur[t].sock0
                  /\ cur[t].nw = 0
                  /\ Cardinality(AuditLinesOf(cur[t].id)) = 1
                  /\ \A j \in AuditLinesOf(cur[t].id) :
                        /\ audit[j].tool = cur[t].cmd
                        /\ ~audit[j].executed
                        /\ audit[j].dryRun
            /\ cur[t].cmd = "sc.status" =>
                  /\ result[t].code # "WRITE_NOT_ALLOWED"
                  /\ result[t].kind = "frame" => cur[t].sock # 0 /\ cur[t].nw >= 2

\* a mutation is refused while the session holds a live connection and the
\* configured dry_run is false
WriteGateWitness ==
    \E t \in Threads :
        /\ pc[t] = "ret"
        /\ ~allow_write
        /\ ~dry_run
        /\ cur[t].cmd = "compile_blueprint"
        /\ connected
        /\ socket # 0

\* C3: one journal line per dispatch of a mutation, whatever its outcome,
\* and none for any other dispatch: every call that has returned has one
\* line if its command is in the mutation list and none otherwise.
AuditOncePerMutation ==
    \A i \in 1..Len(done) :
        Cardinality(AuditLinesOf(done[i].id)) =
            IF done[i].cmd \in MUTATING_COMMANDS THEN 1 ELSE 0

\* C4: ping interleave.  While a caller waits for its response, the pongs it
\* has written are, one for one and in order, the pings it has read, each
\* with the ts of its ping, the last ping being answered before the next
\* read; a pong read gets no answer; and the frame returned is the first
\* frame read that is neither ping nor pong.
PingsOf(frames) == SelectSeq(frames, LAMBDA m : m.type = "ping")

PingInterleave ==
    \A t \in Threads :
        LET pings == PingsOf(consumed[t])
            n == Len(consumed[t])
        IN  /\ Len(pongs[t]) <= Len(pings)
            /\ pc[t] = "pong_write" => Len(pongs[t]) = Len(pings) - 1
            /\ pc[t] = "wait" => Len(pongs[t]) = Len(pings)
            /\ \A i \in 1..Len(pongs[t]) : pings[i].ts # NoTs => pongs[t][i] = pings[i].ts
            /\ pc[t] = "ret" /\ result[t].kind = "frame" =>
                  /\ Len(pongs[t]) = Len(pings)
                  /\ n >= 1
                  /\ result[t].f = consumed[t][n]
                  /\ consumed[t][n].type \notin {"ping", "pong"}
                  /\ \A i \in 1..(n - 1) : consumed[t][i].type \in {"ping", "pong"}

\* a response is returned after a pong and then a ping with a ts were read
PingInterleaveWitness ==
    \E t \in Threads :
        /\ pc[t] = "ret"
        /\ result[t].kind = "frame"
        /\ Len(consumed[t]) = 3
        /\ consumed[t][1].type = "pong"
        /\ consumed[t][2] = PingFrame(100)
        /\ pongs[t] = <<100>>

\* C5: single in flight.  No two callers have a command frame on the wire
\* and no response yet; a header on the wire is followed by its own body;
\* and the frame a caller returns answers its own command.
InFlight(t) == cur[t].sock # 0 /\ pc[t] \notin {"idle", "ret"}

SingleInFlight ==
    /\ \A t, u \in Threads : t # u => ~(InFlight(t) /\ InFlight(u))
    /\ \A s \in SockIds : \A i \in 1..Len(sent[s]) :
          sent[s][i].part = "hdr" /\ i < Len(sent[s]) =>
              /\ sent[s][i + 1].part = "body"
              /\ sent[s][i + 1].f = sent[s][i].f
              /\ sent[s][i + 1].by = sent[s][i].by
    /\ \A t \in Threads :
          pc[t] = "ret" /\ result[t].kind = "frame" =>
              result[t].f.type = "response" /\ result[t].f.id = cur[t].id

\* C6: the handshake gate.  A socket whose handshake was accepted had a
\* first frame of type handshake/ack with ok equal to true; on a socket
\* whose first frame was anything else the handshake failed with
\* PROTOCOL_VERSION_MISMATCH, the socket is closed and not the session's,
\* and no capabilities or command frame was begun on it.
GoodAck(f) == f.type = "handshake/ack" /\ f.ok = "true"

HandshakeGate ==
    \A s \in SockIds :
        /\ hsres[s] = "ok" => GoodAck(first[s])
        /\ first[s] # NoFrame /\ ~GoodAck(first[s]) =>
              /\ hsres[s] = "PROTOCOL_VERSION_MISMATCH"
              /\ s \notin open
              /\ socket # s
              /\ wrote[s] = {}

\* C7: the health ping.  Once a call of send_command("ping", {}) on a socket
\* whose handshake was accepted has read the pong with which the editor
\* answered its ping frame, it returns, and without error.
PingCommandReturns ==
    \A t \in Threads :
        /\ cur[t].cmd = "ping"
        /\ cur[t].sock # 0
        /\ hsres[cur[t].sock] = "ok"
        /\ \E i \in 1..Len(consumed[t]) :
              consumed[t][i].type = "pong" /\ consumed[t][i].id = cur[t].id
        => pc[t] = "ret" /\ result[t].kind = "frame"

\* C8: a protocol failure disconnects.  A call that is about to return the
\* envelope of a failed write or read leaves the session disconnected and
\* its socket closed; a caller writes its command only on an open socket
\* whose handshake was accepted; a call that has a socket from an earlier
\* call to use uses it only if no call failed on it; and the response a call
\* returns answers that call.
ProtocolFailures == {"WRITE_ERROR", "READ_TIMEOUT", "MALFORMED_FRAME"}

FailureDisconnects ==
    /\ \A t \in Threads :
          pc[t] = "ret" /\ result[t].kind = "error" /\ result[t].code \in ProtocolFailures =>
              /\ ~connected
              /\ socket = 0
              /\ cur[t].sock \notin open
              /\ sent[cur[t].sock] = <<>>
              /\ inbox[cur[t].sock] = <<>>
    /\ \A t \in Threads :
          pc[t] \in {"cmd_write", "wait", "pong_write"} =>
              /\ socket \in open
              /\ hsres[socket] = "ok"
              /\ \A i \in 1..Len(done) :
                    done[i].res.kind = "error" /\ done[i].res.code \in ProtocolFailures =>
                        done[i].sock # socket
    /\ \A t \in Threads :
          pc[t] = "ret" /\ result[t].kind = "frame" /\ result[t].f.type = "response" =>
              result[t].f.id = cur[t].id

\* after a call that failed, the next call has its command on a new socket
\* and the editor's answer to it in hand
FailureDisconnectsWitness ==
    \E t \in Threads :
        /\ pc[t] = "ret"
        /\ result[t].kind = "frame"
        /\ Len(done) = 1
        /\ done[1].res.kind = "error"
        /\ done[1].res.code = "READ_TIMEOUT"
        /\ done[1].sock # 0
        /\ cur[t].sock \notin {0, done[1].sock}

\* C9: dedup hit.  Of two dispatches of a mutation with the same requestId
\* that have returned, the second returned what the first returned, was not
\* executed by the editor, and has no journal line.
SameResponse(a, b) == [a EXCEPT !.f.id = 0] = [b EXCEPT !.f.id = 0]

DedupHit ==
    \A i, j \in 1..Len(done) :
        /\ i < j
        /\ done[i].rid = done[j].rid
        /\ done[i].cmd = done[j].cmd
        /\ done[i].cmd \in MUTATING_COMMANDS
        /\ done[i].res.kind = "frame"
        => /\ SameResponse(done[i].res, done[j].res)
           /\ done[j].id \notin exec
           /\ AuditLinesOf(done[j].id) = {}

\* C10: the rate limiter bound.  Take any allowed call: the allowed calls in
\* the 60 seconds that begin with it number at most per_minute_global, and
\* those of any one tool at most per_minute_tool.
AllowsFrom(i, tools) ==
    {j \in 1..Len(allows) :
        /\ allows[j].tool \in tools
        /\ allows[j].ts >= allows[i].ts
        /\ allows[j].ts <= allows[i].ts + WINDOW}

RateBound ==
    \A i \in 1..Len(allows) :
        /\ Cardinality(AllowsFrom(i, Tools)) <= per_minute_global
        /\ Cardinality(AllowsFrom(i, {allows[i].tool})) <= per_minute_tool

\* a call is refused at the global cap exactly one window after the oldest
\* allow still counted
RateBoundWitness ==
    /\ ~last_check.allowed
    /\ Len(allows) >= 1
    /\ now - allows[1].ts = WINDOW
    /\ Len(global_hits) >= per_minute_global
    /\ per_minute_global >= 2

\* C11: check records a call exactly when it allows it.  After an allow the
\* global window and the window of the tool both end with the timestamp of
\* the call; a refused call adds an entry to no window; and when the
\* dispatches of one tool follow one another from empty windows with the
\* clock standing still, the first min(per_minute_tool, per_minute_global) of
\* them pass and every later one is answered RATE_LIMITED with a retryAfterSec
\* of at least 1.
Last(q) == q[Len(q)]

Min(a, b) == IF a <= b THEN a ELSE b

AllowRecorded ==
    last_check.tool # "" /\ last_check.allowed
        => /\ global_hits # <<>> /\ Last(global_hits) = last_check.at
           /\ tool_hits[last_check.tool] # <<>>
           /\ Last(tool_hits[last_check.tool]) = last_check.at

DenyAddsNothing ==
    burst'.res # <<>> /\ burst' # burst /\ ~Last(burst'.res).ok
        => /\ Len(global_hits') <= Len(global_hits)
           /\ \A tool \in Tools : Len(tool_hits'[tool]) <= Len(tool_hits[tool])

BurstAnswers(cap) ==
    \A k \in 1..Len(burst.res) :
        /\ burst.empty => (burst.res[k].ok <=> k <= cap)
        /\ ~burst.res[k].ok => /\ burst.res[k].code = "RATE_LIMITED"
                              /\ burst.res[k].retryAfterSec >= 1

PositiveMatch(pat, tool) == ~IsBang(Strip(pat)) /\ FnMatchCase(tool, Strip(pat))

BangMatch(pat, tool) ==
    /\ IsBang(Strip(pat))
    /\ Strip(Tail(Strip(pat))) # <<>>
    /\ FnMatchCase(tool, Strip(Tail(Strip(pat))))

DenyMatch(pat, tool) == Strip(pat) # <<>> /\ FnMatchCase(tool, Strip(pat))

Permitted(rules, tool) ==
    /\ \E i \in 1..Len(rules.allow) : PositiveMatch(rules.allow[i], tool)
    /\ \A i \in 1..Len(rules.allow) : ~BangMatch(rules.allow[i], tool)
    /\ \A i \in 1..Len(rules.deny) : ~DenyMatch(rules.deny[i], tool)

AllowIffMatchAndNoDeny ==
    verdict # "none" =>
        /\ verdict = "allowed" <=> Role \in DOMAIN roles /\ Permitted(roles[Role], tool_name)
        /\ Role \in DOMAIN roles =>
             (verdict = "allowed" <=>
                EvaluatePatterns(roles[Role].allow \o Banged(roles[Role].deny), tool_name))

\* a positive pattern matches the tool and a "!"-pattern listed after it
\* matches too: the call is denied
AllowIffMatchAndNoDenyWitness ==
    /\ verdict = "denied"
    /\ Role \in DOMAIN roles
    /\ Len(roles[Role].allow) = 2
    /\ PositiveMatch(roles[Role].allow[1], tool_name)
    /\ BangMatch(roles[Role].allow[2], tool_name)

\* C13: the sandbox decision.  A path under a forbidden root is refused even
\* when it is also under an allowed root; with a non-empty allowed list a
\* path under no allowed root is refused; with an empty allowed list every
\* path under no forbidden root is allowed.  "Under" compares the resolved
\* path with the resolved root, component by component.
Under(p, root) ==
    LET np == NormalizePath(p)
        nr == NormalizePath(root)
    IN  \E n \in 0..Len(np) : SubSeq(np, 1, n) = nr

UnderSome(p, roots) == \E i \in 1..Len(roots) : Under(p, roots[i])

ForbiddenWins ==
    path_ok # "none" =>
        /\ UnderSome(path, forbidden_roots) => path_ok = "no"
        /\ allowed_roots # <<>> /\ ~UnderSome(path, allowed_roots) => path_ok = "no"
        /\ allowed_roots = <<>> /\ ~UnderSome(path, forbidden_roots) => path_ok = "yes"

\* a path written with ".." that resolves under an allowed root and under a
\* forbidden root, and is under no forbidden root as written
ForbiddenWinsWitness ==
    /\ path_ok = "no"
    /\ UnderSome(path, forbidden_roots)
    /\ UnderSome(path, allowed_roots)
    /\ ~IsWithinAsWritten(path, forbidden_roots)
    /\ forbidden_roots # <<<<>>>>

\* C14: get after put.  A get of a requestId put since the store was built,
\* whose entry no overflow evicted, returns the response of the last put of
\* that id to have held the lock while at most ttl_sec has passed since the
\* time that put read, and returns nothing once more has passed; whether the
\* journal line of the put was written makes no difference.
GetAfterPut ==
    LET put == last_get.put
    IN  last_get.id # "" /\ put.response # Missing /\ ~put.evicted
            => /\ last_get.at - put.ts <= ttl_sec => last_get.response = put.response
               /\ last_get.at - put.ts > ttl_sec => last_get.response = Missing

\* the second of two puts of one id is read back exactly ttl_sec after it,
\* though its journal line could not be written
GetAfterPutWitness ==
    /\ last_get.id # ""
    /\ last_get.response = "y"
    /\ last_get.put.response = "y"
    /\ ~last_get.put.journaled
    /\ last_get.at - last_get.put.ts = ttl_sec
    /\ nputs = MaxPuts
    /\ \E i \in 1..Len(journal) :
          journal[i].requestId = last_get.id /\ journal[i].response = "x"

\* C15: the store holds at most max_entries entries in every state in which
\* it exists, the state right after its construction from a journal included.
StoreBounded == up = "yes" => Len(entries) <= max_entries

\* C16: journal replay is total.  Whatever the lines of the journal, the
\* constructor returns; a malformed line is passed over.
ReplayTotal == up # "raised"

\* C17: the plan of a validated recipe.  plan() does not raise, holds every
\* declared step exactly once, and holds each step after every step it needs.
IndexIn(order, name) == CHOOSE i \in 1..Len(order) : order[i] = name

PlanTopological ==
    plan_out.called =>
        /\ ~plan_out.raised
        /\ Len(plan_out.order) = Len(recipe)
        /\ Range(plan_out.order) = Range(Declared(recipe))
        /\ \A i \in 1..Len(recipe) :
              \A dep \in Range(recipe[i].needs) :
                  IndexIn(plan_out.order, dep) < IndexIn(plan_out.order, recipe[i].name)

\* three steps, the first declared needing the two declared after it
PlanTopologicalWitness ==
    /\ plan_out.called
    /\ Len(recipe) = MaxSteps
    /\ Cardinality(Range(recipe[1].needs)) = 2
    /\ recipe[1].name \notin Range(recipe[1].needs)
    /\ plan_out.order[Len(plan_out.order)] = recipe[1].name

\* C18: no tool call before its needs.  When the tool call of a step began,
\* every step it needs had reached its result and had its entry in
\* context.steps, whatever the parallelism.
StartsAfterNeeds ==
    /\ \A n \in StepNames :
          started[n].began => Range(StepOf(n).needs) \subseteq started[n].published
    /\ \A n \in StepNames :
          context_steps[n].set => results[n].set /\ context_steps[n] = results[n]

\* a, b (needs a), c (needs a) under parallelism 2: b and c run together,
\* both begun with a published
StartsAfterNeedsWitness ==
    /\ parallelism = 2
    /\ StepOf("a").needs = <<>>
    /\ StepOf("b").needs = <<"a">>
    /\ StepOf("c").needs = <<"a">>
    /\ fut["b"] = "running"
    /\ fut["c"] = "running"
    /\ started["b"].published = {"a"}
    /\ started["c"].published = {"a"}

Blocked(n) == \E dep \in Range(StepOf(n).needs) : ~results[dep].ok

MaxAttempts == 3
MaxDefaultRetry == 2

\* how one call of invoke() ends: a response with ok true, a response with ok
\* false (or one that is not an object), ProtocolError or OSError raised, any
\* other exception raised
Outcomes == {"ok", "failed", "transport", "other"}

\* _step_retry_config: the number of attempts
StepRetryConfig(ma, dr) == IF ma > 0 THEN ma ELSE dr

Attempts == StepRetryConfig(max_attempts, default_retry)

\* retry on every attempt that did not succeed
RetryUnlessOk(outcome) == outcome # "ok"

\* retry_if_exception_type((ProtocolError, OSError))
RetryIf(outcome) == outcome = "transport"

\* the Retrying loop goes round again: attempts > 1, the attempt raised a
\* retried exception and stop_after_attempt(attempts) does not stop
GoesRound == /\ Attempts > 1
             /\ invocations # <<>>
             /\ RetryIf(Last(invocations))
             /\ Len(invocations) < Attempts

\* invoke(): the first call of the step, or the next one of the Retrying loop
Invoke(outcome) ==
    /\ ~step_result.set
    /\ invocations = <<>> \/ GoesRound
    /\ invocations' = Append(invocations, outcome)
    /\ UNCHANGED <<besides_tvars, max_attempts, default_retry,
                   step_result>>

\* _run_step returns: the response's ok, or ok false with code EXCEPTION when
\* the last attempt raised
RunStepEnds ==
    /\ ~step_result.set
    /\ invocations # <<>> /\ ~GoesRound
    /\ step_result' = IF Last(invocations) \in {"ok", "failed"}
                        THEN [set |-> TRUE, ok |-> Last(invocations) = "ok", code |-> "TOOL"]
                        ELSE [set |-> TRUE, ok |-> FALSE, code |-> "EXCEPTION"]
    /\ UNCHANGED <<besides_tvars, max_attempts, default_retry,
                   invocations>>

RetryNext == (\E outcome \in Outcomes : Invoke(outcome)) \/ RunStepEnds

RetryInit ==
    \E ma \in 0..MaxAttempts, dr \in 1..MaxDefaultRetry :
        FrameStart(<<>>) /\ SessionStart(FALSE, TRUE) /\ RateStart(MaxGlobalCap, MaxToolCap)
        /\ PolicyStart(<<>>, <<"a">>) /\ SandboxStart(<<>>, <<>>, <<>>)
        /\ DedupStart(MaxTtl, MaxEntries, <<>>) /\ ClientStart(0) /\ WaitStart(0)
        /\ ServerStart(<<>>)
        /\ SummaryAuditStart(<<>>)
        /\ AuditStart("k1", <<>>) /\ EnvelopeStart("gauntlet.run", "none", FALSE, <<>>)
        /\ CodecStart("server", 1, <<>>) /\ RetryStart(ma, dr)
        /\ RecipeStart(<<>>, "none", 1, FALSE)

SpecRetry == RetryInit /\ [][RetryNext]_vars

\* C21: a step's tool call is attempted at most max_attempts times, every
\* attempt but the last ended in ProtocolError or OSError (so a response with
\* ok false, like any response, is the last attempt), and a step whose attempts
\* all ended in a transport error is recorded as failed
RetryOnlyTransport ==
    /\ Len(invocations) <= Attempts
    /\ max_attempts > 0 => Len(invocations) <= max_attempts
    /\ \A i \in 1..Len(invocations) - 1 : invocations[i] = "transport"
    /\ step_result.set =>
        /\ invocations # <<>>
        /\ Last(invocations) = "failed" => ~step_result.ok
        /\ Last(invocations) = "transport" => ~step_result.ok /\ step_result.code = "EXCEPTION"
        /\ step_result.ok <=> Last(invocations) = "ok"

\* a step that used all of its three attempts on transport errors and failed
RetryOnlyTransportWitness ==
    /\ max_attempts = 3
    /\ invocations = <<"transport", "transport", "transport">>
    /\ step_result = [set |-> TRUE, ok |-> FALSE, code |-> "EXCEPTION"]

\* further: a step whose response has ok false is never invoked again, and nothing
\* is invoked once the step has returned
NoRetryAfterResponse ==
    [][(invocations # <<>> /\ Last(invocations) \in {"ok", "failed"}) \/ step_result.set
        => invocations' = invocations]_vars

\* ---------------------------------------------------------------------------
\* The failure codes of the two codecs: protocol.py (write_frame, read_frame)
\* and cli/mcp_cli/mcp_client.py (_write_frame, _read_frame), by sizes
\* ---------------------------------------------------------------------------
\* lengths of the small bodies tried next to the ones around MAX_FRAME_SIZE
MaxSmallBody == 2

Codecs == {"server", "client"}

\* the code of the ProtocolError each codec raises, per failure
ErrorCodeOfClient(c, failure) ==
    CASE failure = "too_large" -> "FRAME_TOO_LARGE"
      [] failure = "bad_length" -> "MALFORMED_FRAME"
      [] failure = "eof" -> "CONNECTION_CLOSED"
      [] failure = "timeout" -> "READ_TIMEOUT"
      [] failure = "oserror" -> "TRANSPORT_ERROR"
      [] failure = "not_json" -> "INVALID_JSON"

ErrorCode(c, failure) ==
    IF c = "client" THEN ErrorCodeOfClient(c, failure)
    ELSE CASE failure = "timeout" -> "READ_TIMEOUT"
           [] OTHER -> "MALFORMED_FRAME"

Raised(c, failure) == [raised |-> "ProtocolError", code |-> ErrorCode(c, failure)]

\* write_frame: the size check, then header and body go out
WriteFrame ==
    /\ wres = NotCalled
    /\ wres' = IF body_len > MAX_FRAME_SIZE
                 THEN Raised(codec, "too_large") @@ [sent |-> 0]
                 ELSE [raised |-> "none", code |-> "ok", sent |-> HEADER_SIZE + body_len]
    /\ UNCHANGED <<besides_kvars, codec, body_len, wire,
                   rres>>

\* read_exact on a socket that delivers avail bytes and then ends as `ending`
\* says: "eof" (empty chunk), "timeout" (socket.timeout), "oserror"
ReadExact(c, size, avail, ending) ==
    IF avail >= size THEN [raised |-> "none", code |-> "ok", got |-> size]
    ELSE Raised(c, ending) @@ [got |-> avail]

\* json.loads(payload.decode("utf-8")) of a body that is JSON text, other
\* UTF-8 text, or not UTF-8 at all
Decode(c, kind) ==
    CASE kind = "json" -> [raised |-> "none", code |-> "ok"]
      [] kind = "text" -> Raised(c, "not_json")
      [] kind = "bytes" -> [raised |-> "UnicodeDecodeError", code |-> "none"]

\* read_frame
ReadFrame ==
    /\ rres = NotCalled
    /\ wire # <<>>
    /\ LET h == ReadExact(codec, HEADER_SIZE, wire.havail, wire.ending)
           b == ReadExact(codec, wire.hlen, wire.avail, wire.ending)
           d == Decode(codec, wire.kind)
       IN  rres' =
             IF h.raised # "none"
               THEN [raised |-> h.raised, code |-> h.code, header |-> h.got, body |-> 0]
             ELSE IF wire.hlen = 0 \/ wire.hlen > MAX_FRAME_SIZE
               THEN Raised(codec, "bad_length") @@ [header |-> HEADER_SIZE, body |-> 0]
             ELSE IF b.raised # "none"
               THEN [raised |-> b.raised, code |-> b.code, header |-> HEADER_SIZE, body |-> b.got]
             ELSE [raised |-> d.raised, code |-> d.code, header |-> HEADER_SIZE,
                   body |-> wire.hlen]
    /\ UNCHANGED <<besides_kvars, codec, body_len, wire,
                   wres>>

CodecNext == WriteFrame \/ ReadFrame

\* body lengths and header values: small ones and the ones around the limit
Lengths == 1..MaxSmallBody \cup {MAX_FRAME_SIZE, MAX_FRAME_SIZE + 1}

CodecInit ==
    \E c \in Codecs, n \in Lengths, havail \in {0, HEADER_SIZE - 1, HEADER_SIZE},
       hlen \in {0} \cup Lengths, short \in 0..1,
       kind \in {"json", "text", "bytes"}, ending \in {"eof", "timeout", "oserror"} :
        /\ hlen - short >= 0
        /\ FrameStart(<<>>) /\ SessionStart(FALSE, TRUE) /\ RateStart(MaxGlobalCap, MaxToolCap)
        /\ PolicyStart(<<>>, <<"a">>) /\ SandboxStart(<<>>, <<>>, <<>>)
        /\ DedupStart(MaxTtl, MaxEntries, <<>>) /\ ClientStart(0) /\ WaitStart(0)
        /\ ServerStart(<<>>)
        /\ SummaryAuditStart(<<>>)
        /\ AuditStart("k1", <<>>) /\ EnvelopeStart("gauntlet.run", "none", FALSE, <<>>)
        /\ RetryStart(0, 1)
        /\ CodecStart(c, n, [havail |-> havail, hlen |-> hlen, avail |-> hlen - short,
                             kind |-> kind, ending |-> ending])
        /\ RecipeStart(<<>>, "none", 1, FALSE)

SpecCodec == CodecInit /\ [][CodecNext]_vars

\* C22: in both codecs write_frame of a body over 4 MiB fails with
\* FRAME_TOO_LARGE and sends nothing, and read_frame fails with INVALID_JSON on
\* a body that does not parse, CONNECTION_CLOSED on a stream that ends inside a
\* frame and READ_TIMEOUT when the deadline expires inside a frame
StableCodes ==
    /\ wres # NotCalled /\ body_len > MAX_FRAME_SIZE =>
        wres.raised = "ProtocolError" /\ wres.code = "FRAME_TOO_LARGE" /\ wres.sent = 0
    /\ rres # NotCalled =>
        LET length_ok == wire.hlen > 0 /\ wire.hlen <= MAX_FRAME_SIZE
            cut == wire.havail < HEADER_SIZE \/ (length_ok /\ wire.avail < wire.hlen)
        IN  /\ cut /\ wire.ending = "eof" =>
                rres.raised = "ProtocolError" /\ rres.code = "CONNECTION_CLOSED"
            /\ cut /\ wire.ending = "timeout" =>
                rres.raised = "ProtocolError" /\ rres.code = "READ_TIMEOUT"
            /\ ~cut /\ length_ok /\ wire.kind # "json" =>
                rres.raised = "ProtocolError" /\ rres.code = "INVALID_JSON"

\* C23: in protocol.py a header of 0 or of more than 4 MiB, a stream that ends
\* before the announced body is complete and a body over 4 MiB to write are
\* all ProtocolError MALFORMED_FRAME; the bad header costs no body byte and
\* the oversized body sends no byte
ServerMalformedFrame ==
    codec = "server" =>
        /\ wres # NotCalled /\ body_len > MAX_FRAME_SIZE =>
            wres.raised = "ProtocolError" /\ wres.code = "MALFORMED_FRAME" /\ wres.sent = 0
        /\ wres # NotCalled /\ body_len <= MAX_FRAME_SIZE => wres.raised = "none"
        /\ rres # NotCalled /\ wire.havail = HEADER_SIZE =>
            /\ wire.hlen = 0 \/ wire.hlen > MAX_FRAME_SIZE =>
                rres.raised = "ProtocolError" /\ rres.code = "MALFORMED_FRAME" /\ rres.body = 0
            /\ wire.hlen \in 1..MAX_FRAME_SIZE /\ wire.avail < wire.hlen /\ wire.ending = "eof" =>
                rres.raised = "ProtocolError" /\ rres.code = "MALFORMED_FRAME"

\* protocol.py has refused a header of 4 MiB + 1 and a truncated body
ServerMalformedFrameWitness ==
    /\ codec = "server" /\ body_len = MAX_FRAME_SIZE + 1
    /\ wres = [raised |-> "ProtocolError", code |-> "MALFORMED_FRAME", sent |-> 0]
    /\ wire.havail = HEADER_SIZE /\ wire.hlen = MAX_FRAME_SIZE + 1
    /\ rres = [raised |-> "ProtocolError", code |-> "MALFORMED_FRAME", header |-> HEADER_SIZE,
               body |-> 0]

\* ---------------------------------------------------------------------------
\* The envelopes of the tools the server runs itself
\* ---------------------------------------------------------------------------
\* failed tests in a summary, failure lines in a log
MaxFailed == 1
\* platforms of one uat.buildcookrun call
MaxPlatforms == 2

Wrappers == {"automation.run_specs", "gauntlet.run", "uat.buildcookrun"}

\* the codes _apply_security returns (server.py 136-182)
GateCodes == {"TOOL_DENIED", "RATE_LIMITED", "REQUEST_TOO_LARGE", "ARRAY_TOO_LARGE",
              "INVALID_PARAMS", "PATH_NOT_ALLOWED"}

\* how a spawned process ended and what its log holds
ProcessResult(timed_out, has_exit, exit_code, parse_error, nfailed, nfailures) ==
    [timed_out |-> timed_out, has_exit |-> has_exit, exit_code |-> exit_code,
     parse_error |-> parse_error, failed |-> nfailed, failures |-> nfailures]

Envelope(ok, error) == [set |-> TRUE, ok |-> ok, error |-> error]

\* ToolError.to_response
ToResponse(code) == Envelope(FALSE, code)

\* response.setdefault("error", {...})
SetDefaultError(response, code) ==
    IF response.error = "none" THEN [response EXCEPT !.error = code] ELSE response

\* automation_specs.run_specs after spawn_process
RunSpecs(r) ==
    IF r.timed_out THEN ToResponse("TIMEOUT")
    ELSE IF ~r.has_exit THEN ToResponse("PROCESS_FAILED")
    ELSE LET response == Envelope(r.exit_code = 0, "none")
             parsed == IF r.parse_error
                         THEN SetDefaultError(response, "REPORT_PARSE_FAILED")
                       ELSE IF r.failed # 0 /\ r.failures # 0
                         THEN SetDefaultError(response, "TESTS_FAILED")
                       ELSE response
         IN  IF r.exit_code # 0 THEN SetDefaultError(parsed, "PROCESS_FAILED") ELSE parsed

\* gauntlet.run_gauntlet after spawn_process
RunGauntlet(r) ==
    IF r.timed_out THEN ToResponse("TIMEOUT")
    ELSE IF ~r.has_exit THEN ToResponse("PROCESS_FAILED")
    ELSE LET response == Envelope(r.exit_code = 0, "none")
             parsed == IF r.parse_error
                         THEN SetDefaultError(response, "REPORT_PARSE_FAILED")
                       ELSE response
         IN  IF r.exit_code # 0 THEN SetDefaultError(parsed, "PROCESS_FAILED") ELSE parsed

\* uat.execute_buildcookrun for one platform
ExecuteBuildCookRun(r) ==
    IF r.timed_out THEN Envelope(FALSE, "TIMEOUT")
    ELSE IF r.exit_code # 0 THEN Envelope(FALSE, "PROCESS_FAILED")
    ELSE Envelope(TRUE, "none")

\* uat.run_buildcookrun: one result as it is, several under {ok, results}
RunBuildCookRun(rs) ==
    IF Len(rs) = 1 THEN ExecuteBuildCookRun(rs[1])
    ELSE Envelope(\A i \in 1..Len(rs) : ExecuteBuildCookRun(rs[i]).ok, "none")

\* the tool function registered by register_server_tools: the gates, the
\* wrapper, _finalize_response (which leaves ok and error as they are)
Dispatch ==
    /\ ~envelope.set
    /\ envelope' =
         IF violation # "none" THEN Envelope(FALSE, violation)
         ELSE IF config_error THEN ToResponse("ENGINE_NOT_FOUND")
         ELSE CASE wrapper = "automation.run_specs" -> RunSpecs(procs[1])
                [] wrapper = "gauntlet.run" -> RunGauntlet(procs[1])
                [] wrapper = "uat.buildcookrun" -> RunBuildCookRun(procs)
    /\ UNCHANGED <<besides_evars, wrapper, violation, config_error, procs>>

EnvelopeNext == Dispatch

\* process results of a test run: with or without exit code, exit 0 or 1
TestRuns ==
    {ProcessResult(t, h, x, p, f, l) : t \in BOOLEAN, h \in BOOLEAN, x \in 0..1, p \in BOOLEAN,
                                       f \in 0..MaxFailed, l \in 0..MaxFailed}

\* process results of a build: exit code -1 (none), 0 or 1; the log is not parsed for tests
Builds == {ProcessResult(t, TRUE, x, FALSE, 0, 0) : t \in BOOLEAN, x \in -1..1}

EnvelopeInit ==
    \E tool \in Wrappers, v \in {"none"} \cup GateCodes, ce \in BOOLEAN,
       n \in 1..MaxPlatforms :
        \E ps \in [1..n -> IF tool = "uat.buildcookrun" THEN Builds ELSE TestRuns] :
            /\ tool # "uat.buildcookrun" => n = 1
            /\ FrameStart(<<>>) /\ SessionStart(FALSE, TRUE)
            /\ RateStart(MaxGlobalCap, MaxToolCap)
            /\ PolicyStart(<<>>, <<"a">>) /\ SandboxStart(<<>>, <<>>, <<>>)
            /\ DedupStart(MaxTtl, MaxEntries, <<>>) /\ ClientStart(0) /\ WaitStart(0)
            /\ ServerStart(<<>>)
            /\ SummaryAuditStart(<<>>) /\ AuditStart("k1", <<>>) /\ RetryStart(0, 1)
            /\ CodecStart("server", 1, <<>>)
            /\ EnvelopeStart(tool, v, ce, ps)
            /\ RecipeStart(<<>>, "none", 1, FALSE)

SpecEnvelope == EnvelopeInit /\ [][EnvelopeNext]_vars

\* C24: every response of a dispatch carries an error (with its code) exactly
\* when ok is false, for the gate rejections and for automation.run_specs,
\* gauntlet.run and uat.buildcookrun, whatever the timeout, the exit code, the
\* summary parse and the number of failed tests
WellFormedEnvelope ==
    envelope.set => (envelope.error # "none" <=> ~envelope.ok)

\* ---------------------------------------------------------------------------
\* security/audit_sign.py: canonical JSON, signatures and nonces
\* ---------------------------------------------------------------------------
MaxSigns == 2
MaxVerifies == 3
MaxTicks == 2

\* AuditSigner.ttl
TTL == 3600

Secrets == {"k1", "k2"}

\* "requestId", "tool", "serverTs"
KEY_REQUEST_ID == <<114, 101, 113, 117, 101, 115, 116, 73, 100>>
KEY_TOOL == <<116, 111, 111, 108>>
KEY_SERVER_TS == <<115, 101, 114, 118, 101, 114, 84, 115>>

\* the record signed in every run: request "1" of tool "a"
AuditRequestId == JStr(<<49>>)
AuditTool == JStr(<<97>>)

\* the order of Python strings
RECURSIVE StrLess(_, _)
StrLess(a, b) ==
    IF b = <<>> THEN FALSE
    ELSE IF a = <<>> THEN TRUE
    ELSE IF Head(a) # Head(b) THEN Head(a) < Head(b)
    ELSE StrLess(Tail(a), Tail(b))

\* dict(...): a later pair of a key replaces the value of the earlier one,
\* which keeps its place
RECURSIVE DictOf(_)
DictOf(pairs) ==
    IF pairs = <<>> THEN <<>>
    ELSE LET init == DictOf(SubSeq(pairs, 1, Len(pairs) - 1))
             p == pairs[Len(pairs)]
         IN  IF \E i \in 1..Len(init) : init[i][1] = p[1]
               THEN [i \in 1..Len(init) |-> IF init[i][1] = p[1] THEN p ELSE init[i]]
               ELSE Append(init, p)

\* sort_keys=True
RECURSIVE SortKeys(_)
SortKeys(o) ==
    IF o = <<>> THEN <<>>
    ELSE LET i == CHOOSE k \in 1..Len(o) : \A j \in 1..Len(o) : ~StrLess(o[j][1], o[k][1])
         IN  <<o[i]>> \o SortKeys(SubSeq(o, 1, i - 1) \o SubSeq(o, i + 1, Len(o)))

\* separators=(",", ":")
RECURSIVE CompactMembers(_)
CompactMembers(o) ==
    IF o = <<>> THEN <<>>
    ELSE DumpString(Head(o)[1]) \o <<COLON>> \o DumpValue(Head(o)[2])
            \o (IF Tail(o) = <<>> THEN <<>> ELSE <<COMMA>> \o CompactMembers(Tail(o)))

\* _canonicalize_payload
CanonicalizePayload(o) == <<LBRACE>> \o CompactMembers(SortKeys(o)) \o <<RBRACE>>

\* base64(hmac-sha256(secret, message)): equal for equal secret and message,
\* taken as different otherwise
Hmac(s, message) == [key |-> s, message |-> message]

\* datetime.now(tz=utc).isoformat(): the digits of the clock
ServerTs(t) == JStr(Digits(t))

\* AuditSigner._prune_locked
PruneLocked(rec, t) == [n \in {k \in DOMAIN rec : ~(t - rec[k] > TTL)} |-> rec[n]]

\* self._recent[nonce] = timestamp
Remember(rec, nonce, t) == [n \in DOMAIN rec \cup {nonce} |-> IF n = nonce THEN t ELSE rec[n]]

Reverse(o) == [i \in 1..Len(o) |-> o[Len(o) + 1 - i]]

\* AuditSigner.sign of the record, its payload given in one of its key
\* orders; uuid4 gives a nonce never seen before
Sign(reversed) ==
    /\ Len(signed) < MaxSigns
    /\ LET given == IF reversed THEN Reverse(record) ELSE record
           signed_payload == DictOf(<<<<KEY_REQUEST_ID, AuditRequestId>>, <<KEY_TOOL, AuditTool>>>>
                                    \o given)
           payload_with_ts == DictOf(signed_payload \o <<<<KEY_SERVER_TS, ServerTs(wallclock)>>>>)
           canonical == CanonicalizePayload(payload_with_ts)
           nonce == Len(signed) + 1
       IN  /\ signed' = Append(signed, [auditSig |-> Hmac(secret, canonical), nonce |-> nonce,
                                        serverTs |-> wallclock, reversed |-> reversed])
           /\ recent' = Remember(PruneLocked(recent, wallclock), nonce, wallclock)
    /\ UNCHANGED <<besides_avars, secret, record, wallclock, nticks, verifies>>

\* AuditSigner.verify_nonce
VerifyNonce(nonce) ==
    /\ Len(verifies) < MaxVerifies
    /\ LET pruned == PruneLocked(recent, wallclock)
           seen == nonce \in DOMAIN pruned
       IN  /\ recent' = IF seen THEN pruned ELSE Remember(pruned, nonce, wallclock)
           /\ verifies' = Append(verifies, [nonce |-> nonce, at |-> wallclock,
                                            accepted |-> ~seen])
    /\ UNCHANGED <<besides_avars, secret, record, wallclock, nticks, signed>>

\* time passes: a second, or the TTL
AuditTick(d) ==
    /\ nticks < MaxTicks
    /\ wallclock' = wallclock + d
    /\ nticks' = nticks + 1
    /\ UNCHANGED <<besides_avars, secret, record, signed, recent, verifies>>

SignNext ==
    \/ \E reversed \in BOOLEAN : Sign(reversed)
    \/ \E d \in {1, TTL} : AuditTick(d)

SignInit ==
    \E s \in Secrets, o \in JsonObjects :
        /\ FrameStart(<<>>) /\ SessionStart(FALSE, TRUE) /\ RateStart(MaxGlobalCap, MaxToolCap)
        /\ PolicyStart(<<>>, <<"a">>) /\ SandboxStart(<<>>, <<>>, <<>>)
        /\ DedupStart(MaxTtl, MaxEntries, <<>>) /\ ClientStart(0) /\ WaitStart(0)
        /\ ServerStart(<<>>)
        /\ SummaryAuditStart(<<>>)
        /\ RetryStart(0, 1)
        /\ CodecStart("server", 1, <<>>)
        /\ EnvelopeStart("gauntlet.run", "none", FALSE, <<>>)
        /\ AuditStart(s, o)
        /\ RecipeStart(<<>>, "none", 1, FALSE)

SpecSign == SignInit /\ [][SignNext]_vars

\* nonces presented from outside: 0 is never emitted by sign, the others
\* are the ones sign has emitted so far
NonceNext ==
    \/ Sign(FALSE)
    \/ \E nonce \in 0..Len(signed) : VerifyNonce(nonce)
    \/ \E d \in {1, TTL} : AuditTick(d)

NonceInit ==
    /\ FrameStart(<<>>) /\ SessionStart(FALSE, TRUE) /\ RateStart(MaxGlobalCap, MaxToolCap)
    /\ PolicyStart(<<>>, <<"a">>) /\ SandboxStart(<<>>, <<>>, <<>>)
    /\ DedupStart(MaxTtl, MaxEntries, <<>>) /\ ClientStart(0) /\ WaitStart(0)
    /\ ServerStart(<<>>)
    /\ SummaryAuditStart(<<>>)
    /\ RetryStart(0, 1)
    /\ CodecStart("server", 1, <<>>)
    /\ EnvelopeStart("gauntlet.run", "none", FALSE, <<>>)
    /\ AuditStart("k1", <<>>)
    /\ RecipeStart(<<>>, "none", 1, FALSE)

SpecNonce == NonceInit /\ [][NonceNext]_vars

\* C25: two signatures of the same record under the same secret carry the
\* same auditSig, whenever they are made and in whatever key order the payload
\* is given
SameRecordSameSig ==
    \A i, j \in 1..Len(signed) : signed[i].auditSig = signed[j].auditSig

\* C26: a presentation of a nonce to verify_nonce is accepted exactly when no
\* presentation of it was accepted in the 3600 s before; a nonce emitted by
\* sign is accepted the first time it is presented and rejected afterwards
NonceOnce ==
    \A i \in 1..Len(verifies) :
        verifies[i].accepted <=>
            ~\E j \in 1..(i - 1) : /\ verifies[j].nonce = verifies[i].nonce
                                   /\ verifies[j].accepted
                                   /\ verifies[i].at - verifies[j].at <= TTL

\* C27: when execute returns, the summary's audit.actions holds the actions of
\* every step response obtained during the run, each once, the response of a
\* failing step and of steps done in the round of a failure included
SummaryAuditComplete ==
    epc = "end" =>
        /\ \A n \in obtained : \E i \in 1..Len(audit_actions) : audit_actions[i] = n
        /\ \A i, j \in 1..Len(audit_actions) :
               audit_actions[i] = audit_actions[j] => i = j
        /\ \A i \in 1..Len(audit_actions) : audit_actions[i] \in obtained

\* ---------------------------------------------------------------------------
\* server.py: a dispatch through _refresh_policy and the gates of
\* _apply_security
\* ---------------------------------------------------------------------------
MaxDispatches == 2
\* largest rate_per_minute_global and rate_per_minute_per_tool of a document
MaxGateCap == 2
\* limits.request_size_kb and limits.array_items_max of the documents
GateSizeKb == 1
GateArrayMax == 1

\* a parsed policy document: the rules of role dev, the limits, the path lists
Policy(rules, capG, capT, allowed, forbidden) ==
    [loaded |-> TRUE, rules |-> rules, rate_per_minute_global |-> capG,
     rate_per_minute_per_tool |-> capT, request_size_kb |-> GateSizeKb,
     array_items_max |-> GateArrayMax, allowed |-> allowed, forbidden |-> forbidden]

\* role dev may call every tool / every tool but those in g
AllowAll == [allow |-> << <<"*">> >>, deny |-> <<>>]
AllowAllButG == [allow |-> << <<"*">> >>, deny |-> << <<"g", "*">> >>]

Docs(caps) ==
    {Policy(rules, capG, capT, allowed, <<>>) :
        rules \in {AllowAll, AllowAllButG}, capG \in caps, capT \in caps,
        allowed \in {<< <<"a">> >>}}

\* the name of a tool as the patterns see it, shortened to its first two
\* letters
PolicyName(tool) == IF tool = "gauntlet.run" THEN <<"g", "a">> ELSE <<"s", "p">>

\* a request: its tool, whether params is an object, len(serialized), the
\* longest array in params, what validate_schema returns, the strings
\* _iter_paths yields
Request(tool, is_object, size, array, schema_error, paths) ==
    [tool |-> tool, is_object |-> is_object, size |-> size, array |-> array,
     schema_error |-> schema_error, paths |-> paths]

Requests ==
    {Request(tool, TRUE, size, array, schema_error, paths) :
        tool \in Tools, size \in {GateSizeKb * 1024, GateSizeKb * 1024 + 1},
        array \in {GateArrayMax, GateArrayMax + 1}, schema_error \in BOOLEAN,
        paths \in {<<>>, << <<"a">> >>, << <<"b">> >>}}
    \cup {Request(tool, FALSE, 1, 0, FALSE, <<>>) : tool \in Tools}

\* PolicyLoader.load(force)
Load(cached, file, force) == IF cached.loaded /\ ~force THEN cached ELSE file

\* PolicyLoader.load that reads the document every time
LoadFresh(cached, file, force) == file

\* the code of the last gate that fails, "ok" when none does
RECURSIVE LastGate(_)
LastGate(checks) ==
    IF checks = <<>> THEN "ok"
    ELSE IF Last(checks)[2] THEN Last(checks)[1]
    ELSE LastGate(SubSeq(checks, 1, Len(checks) - 1))

\* _apply_security: the code of the first gate that fails, "ok" when none does
RECURSIVE FirstGate(_)
FirstGate(checks) ==
    IF checks = <<>> THEN "ok"
    ELSE IF Head(checks)[2] THEN Head(checks)[1]
    ELSE FirstGate(Tail(checks))

\* the tool function: the shape test, _apply_security (policy refresh, role
\* policy, rate limit, size, array, schema, paths), then the tool itself
GateDispatch(req) ==
    /\ ndispatch < MaxDispatches
    /\ ndispatch' = ndispatch + 1
    /\ request' = req
    /\ IF ~req.is_object
         THEN /\ gate_answer' = [code |-> "INVALID_PARAMS", executed |-> FALSE]
              /\ UNCHANGED <<loader_policy, current_policy, per_minute_global, per_minute_tool,
                             global_hits, tool_hits>>
         ELSE LET policy == Load(loader_policy, policy_file, FALSE)
                  rebuild ==
                      \/ policy.rate_per_minute_global # current_policy.rate_per_minute_global
                      \/ policy.rate_per_minute_per_tool # current_policy.rate_per_minute_per_tool
                  capG == IF rebuild THEN policy.rate_per_minute_global ELSE per_minute_global
                  capT == IF rebuild THEN policy.rate_per_minute_per_tool ELSE per_minute_tool
                  g0 == IF rebuild THEN <<>> ELSE global_hits
                  t0 == IF rebuild THEN [tool \in Tools |-> <<>>] ELSE tool_hits
                  permitted == Evaluate(policy.rules, PolicyName(req.tool))
                  g == Prune(g0, now)
                  th == Prune(t0[req.tool], now)
                  limited == Len(g) >= capG \/ Len(th) >= capT
                  checks ==
                      << <<"TOOL_DENIED", ~permitted>>,
                         <<"RATE_LIMITED", limited>>,
                         <<"REQUEST_TOO_LARGE", req.size > policy.request_size_kb * 1024>>,
                         <<"ARRAY_TOO_LARGE", req.array > policy.array_items_max>>,
                         <<"INVALID_PARAMS", req.schema_error>>,
                         <<"PATH_NOT_ALLOWED",
                           \E i \in 1..Len(req.paths) :
                               ~PathAllowed(req.paths[i], policy.allowed, policy.forbidden)>> >>
                  code == FirstGate(checks)
              IN  /\ loader_policy' = policy
                  /\ current_policy' = policy
                  /\ per_minute_global' = capG
                  /\ per_minute_tool' = capT
                  /\ IF ~permitted
                       THEN global_hits' = g0 /\ tool_hits' = t0
                     ELSE IF limited
                       THEN global_hits' = g /\ tool_hits' = [t0 EXCEPT ![req.tool] = th]
                     ELSE /\ global_hits' = Append(g, now)
                          /\ tool_hits' = [t0 EXCEPT ![req.tool] = Append(th, now)]
                  /\ gate_answer' = [code |-> code, executed |-> code = "ok"]
    /\ UNCHANGED <<fvars, svars, pvars, bvars, dvars, rvars, besides_gvars, policy_file, now,
                   last_check, allows, burst>>

\* the policy document is edited on disk
EditPolicy(doc) ==
    /\ doc # policy_file
    /\ policy_file' = doc
    /\ UNCHANGED <<ovars, besides_gvars, loader_policy, current_policy, request, gate_answer,
                   ndispatch>>

GateNext ==
    \/ \E req \in Requests : GateDispatch(req)
    \/ \E d \in {WINDOW + 1} : Tick(d)

GateInit ==
    \E doc \in Docs(1..MaxGateCap) :
        /\ FrameStart(<<>>) /\ SessionStart(FALSE, TRUE)
        /\ RateStart(doc.rate_per_minute_global, doc.rate_per_minute_per_tool)
        /\ PolicyStart(<<>>, <<"a">>) /\ SandboxStart(<<>>, <<>>, <<>>)
        /\ DedupStart(MaxTtl, MaxEntries, <<>>) /\ ClientStart(0) /\ WaitStart(0)
        /\ RetryStart(0, 1)
        /\ CodecStart("server", 1, <<>>)
        /\ EnvelopeStart("gauntlet.run", "none", FALSE, <<>>)
        /\ AuditStart("k1", <<>>)
        /\ SummaryAuditStart(<<>>)
        /\ ServerStart(doc)
        /\ RecipeStart(<<>>, "none", 1, FALSE)

SpecGate == GateInit /\ [][GateNext]_vars

\* requests that pass every gate but the limiter
PlainRequests == {Request(tool, TRUE, 1, 0, FALSE, <<>>) : tool \in Tools}

ReloadNext ==
    \/ \E req \in PlainRequests : GateDispatch(req)
    \/ \E doc \in Docs(1..MaxGateCap) : EditPolicy(doc)

SpecReload == GateInit /\ [][ReloadNext]_vars

\* C28: the gates answer in the order role policy, rate limit, size, array
\* length, schema, path sandbox: the response of a dispatch carries the code
\* of the first gate the request violates, a request the policy denies
\* leaves the limiter's windows as they were, and the tool runs exactly when
\* no gate is violated.
GateOrder ==
    [][(ndispatch' # ndispatch /\ request'.is_object) =>
        LET req == request'
            policy == current_policy'
            code == gate_answer'.code
            denied == ~Evaluate(policy.rules, PolicyName(req.tool))
            limited ==
                \/ Len(Prune(global_hits, now)) >= per_minute_global'
                \/ Len(Prune(tool_hits[req.tool], now)) >= per_minute_tool'
            large == req.size > policy.request_size_kb * 1024
            long == req.array > policy.array_items_max
            outside ==
                \E i \in 1..Len(req.paths) :
                    ~PathAllowed(req.paths[i], policy.allowed, policy.forbidden)
        IN  /\ denied => code = "TOOL_DENIED"
            /\ (~denied /\ limited) => code = "RATE_LIMITED"
            /\ (~denied /\ ~limited /\ large) => code = "REQUEST_TOO_LARGE"
            /\ (~denied /\ ~limited /\ ~large /\ long) => code = "ARRAY_TOO_LARGE"
            /\ (~denied /\ ~limited /\ ~large /\ ~long /\ req.schema_error)
                   => code = "INVALID_PARAMS"
            /\ (~denied /\ ~limited /\ ~large /\ ~long /\ ~req.schema_error /\ outside)
                   => code = "PATH_NOT_ALLOWED"
            /\ gate_answer'.executed
                   <=> ~(denied \/ limited \/ large \/ long \/ req.schema_error \/ outside)
            /\ denied => (global_hits' = global_hits /\ tool_hits' = tool_hits)]_vars

\* a request too large, with too long an array, a schema error and a path
\* outside the sandbox was answered with the code of the size gate
GateOrderWitness ==
    /\ ndispatch > 0
    /\ request.is_object
    /\ request.size > current_policy.request_size_kb * 1024
    /\ request.array > current_policy.array_items_max
    /\ request.schema_error
    /\ request.paths = << <<"b">> >>
    /\ gate_answer = [code |-> "REQUEST_TOO_LARGE", executed |-> FALSE]

\* C29: a dispatch that a gate rejects leaves the server state as it was:
\* the hits inside the limiter's windows, the dedup store, the audit journal
\* and the editor session are the same after it as before it.
RejectedLeavesState ==
    [][(ndispatch' # ndispatch /\ gate_answer'.code # "ok") =>
        /\ Prune(global_hits', now) = Prune(global_hits, now)
        /\ \A tool \in Tools : Prune(tool_hits'[tool], now) = Prune(tool_hits[tool], now)
        /\ UNCHANGED <<svars, dvars>>]_vars

\* C30: the policy document as it is on disk when a dispatch begins is the
\* one the dispatch evaluates, and the limiter the dispatch uses has the
\* document's two caps.
PolicyReload ==
    [][(ndispatch' # ndispatch /\ request'.is_object) =>
        /\ current_policy' = policy_file
        /\ per_minute_global' = policy_file.rate_per_minute_global
        /\ per_minute_tool' = policy_file.rate_per_minute_per_tool]_vars

\* C32: ties of the plan go by declaration order.  At every position of the
\* plan, the step listed is the earliest declared of the steps eligible there
\* (not yet listed, all their needs listed before); so two steps with empty
\* needs are listed in the order of their declaration.
PlanTiesByDeclaration ==
    (plan_out.called /\ ~plan_out.raised) =>
        \A k \in 1..Len(plan_out.order) :
            LET emitted == {plan_out.order[i] : i \in 1..(k - 1)}
                eligible == {n \in Range(Declared(recipe)) \ emitted :
                                NeedsOf(recipe, n) \subseteq emitted}
            IN  \A m \in eligible :
                    IndexIn(Declared(recipe), plan_out.order[k]) <= IndexIn(Declared(recipe), m)

\* C33: the states of a step.  A step is submitted at most once, and only
\* when get_ready has handed it out and it has no result yet; its tool call
\* begins only after that submission; a step handed out with a false
\* condition is recorded skipped with ok true, and the tool of a step with a
\* false condition is never invoked; a recorded result {ok, skipped} is
\* never changed.
StepStateMachine ==
    [][\A n \in Range(Declared(recipe)) :
          /\ fut'[n] = "pending" =>
                \/ fut[n] = "pending"
                \/ fut[n] = "none" /\ n \in Range(ready_nodes) /\ ~results[n].set
          /\ fut[n] # "none" => fut'[n] # "none"
          /\ (started'[n].began /\ ~started[n].began) => fut[n] = "pending" /\ ~results[n].set
          /\ started[n].began => started'[n] = started[n]
          /\ ~StepOf(n).when => ~started'[n].began
          /\ (n \in Range(ready_nodes) /\ n \notin Range(ready_nodes'))
                => IF StepOf(n).when
                     THEN fut'[n] = "pending" \/ results'[n] = StepResult(FALSE, TRUE)
                     ELSE fut'[n] = "none" /\ results'[n] = StepResult(TRUE, TRUE)
          /\ results[n].set => results'[n] = results[n]]_vars

\* execute returned: a ran and succeeded, b that needs it was handed out with
\* a false condition and is skipped with ok true, c that needs both ran
\* and failed
StepStateMachineWitness ==
    /\ epc = "end"
    /\ StepOf("b").needs = <<"a">>
    /\ ~StepOf("b").when
    /\ Range(StepOf("c").needs) = {"a", "b"}
    /\ results["a"] = StepResult(TRUE, FALSE)
    /\ results["b"] = StepResult(TRUE, TRUE)
    /\ ~started["b"].began
    /\ started["c"].began
    /\ results["c"] = StepResult(FALSE, FALSE)

\* C36: the summary is faithful to what ran.  When execute returns, a step
\* reported skipped never had its tool call started, and a step whose tool
\* call completed is reported with the ok of its response, not skipped.
SummaryFaithful ==
    epc = "end" =>
        \A n \in Range(Declared(recipe)) :
            /\ results[n].skipped => ~started[n].began
            /\ fut[n] \in {"ok", "error"} => results[n] = StepResult(fut[n] = "ok", FALSE)

\* the steps that name reaches along needs in at most k hops
RECURSIVE NeedsWithin(_, _)
NeedsWithin(name, k) ==
    IF k = 0 THEN {}
    ELSE NeedsOf(recipe, name)
         \cup UNION {NeedsWithin(dep, k - 1) : dep \in NeedsOf(recipe, name)}

\* C37: failure propagates along needs.  With continue_on_error true, the
\* tool call of a step has not begun if a step it needs, directly or through
\* other steps, has failed, also when a step in between was skipped for a
\* false condition.
FailurePropagates ==
    continue_on_error =>
        \A n \in Range(Declared(recipe)) :
            started[n].began =>
                \A dep \in NeedsWithin(n, Len(recipe)) : ~(results[dep].set /\ ~results[dep].ok)

\* C40: the summary.  When execute returns, every declared step has exactly
\* one entry, and summary.ok is true exactly when every entry has ok true: a
\* step skipped for a false condition counts as ok, a step skipped for a
\* failed dependency or by an abort does not.
SummaryOk ==
    epc = "end" =>
        /\ \A n \in StepNames : results[n].set <=> n \in Range(Declared(recipe))
        /\ summary_ok \in {"true", "false"}
        /\ summary_ok = "true" <=> \A n \in Range(Declared(recipe)) : results[n].ok
        /\ (\E n \in Range(Declared(recipe)) : results[n] = StepResult(FALSE, TRUE))
              => summary_ok = "false"

\* continue_on_error: a failed, b that needs it skipped-failed, the
\* independent c skipped for its false condition, and the summary not ok
SummaryOkWitness ==
    /\ epc = "end"
    /\ continue_on_error
    /\ results["a"] = StepResult(FALSE, FALSE)
    /\ results["b"] = StepResult(FALSE, TRUE)
    /\ results["c"] = StepResult(TRUE, TRUE)
    /\ summary_ok = "false"

\* every step ok or skipped for a false condition, and the summary ok
SummaryOkTrueWitness ==
    /\ epc = "end"
    /\ results["a"] = StepResult(TRUE, FALSE)
    /\ results["b"] = StepResult(TRUE, TRUE)
    /\ summary_ok = "true"

\* execute under a scheduler that lets some thread that can step do so: the
\* caller's thread, or a worker whose tool call returns or raises
SpecRecipeFair == RecipeInit /\ [][RecipeNext]_vars /\ WF_vars(RecipeNext)

\* C39: execute terminates.  For every validated recipe, parallelism and
\* continue_on_error, when every tool call returns or raises, execute
\* comes to its return.
ExecuteTerminates == <>(epc = "end")

\* execute returned from a run under parallelism 2 in which the step that
\* needs the two others ran last
ExecuteTerminatesWitness ==
    /\ epc = "end"
    /\ parallelism = 2
    /\ Range(StepOf("c").needs) = {"a", "b"}
    /\ started["c"].published = {"a", "b"}
    /\ results["c"].set
    /\ ~results["c"].skipped

\* ---------------------------------------------------------------------------
\* a caller that honours retryAfterSec
\* ---------------------------------------------------------------------------

\* the caller whose dispatch was just answered RATE_LIMITED waits the
\* retryAfterSec of the answer
WaitRetryAfter ==
    /\ last_check.tool # ""
    /\ ~last_check.allowed
    /\ now = last_check.at
    /\ Tick(RetryAfterSec(last_check.retry))

BackoffNext ==
    \/ \E tool \in Tools : Check(tool)
    \/ \E d \in TimeSteps : Tick(d)
    \/ WaitRetryAfter

SpecBackoff == RateInit /\ [][BackoffNext]_vars

\* a dispatch of the tool of the last answer, made retryAfterSec seconds
\* after that answer refused it, with no dispatch in between
RetriesAfterWait ==
    /\ last_check.tool # ""
    /\ ~last_check.allowed
    /\ now = last_check.at + RetryAfterSec(last_check.retry)
    /\ last_check'.at = now
    /\ last_check'.tool = last_check.tool

\* C38: retryAfterSec is sufficient.  A caller answered RATE_LIMITED that
\* waits retryAfterSec seconds and dispatches the same tool again, with no
\* dispatch in between, is not rate-limited, whichever cap refused it.
RetryAfterSuffices == [][RetriesAfterWait => last_check'.allowed]_vars

\* ---------------------------------------------------------------------------
\* protocol.py read_frame and its deadlines, called by _wait_for_message
\* ---------------------------------------------------------------------------
IDLE_TIMEOUT == 60

\* how long a recv may take to return data, when its timeout allows
RecvWaits == {0, 20, 40, 60}

\* _monotonic_deadline(timeout)
MonotonicDeadline(timeout, t) == t + timeout

\* _remaining_time(deadline)
RemainingTime(deadline, t) == Max0(deadline - t)

\* read_frame ends at time t
ReadFrameEnded(t) == [set |-> TRUE, timeout |-> rf_timeout, took |-> t - rf_start]

\* read_exact: sock.recv(remaining) returns k bytes after d seconds, within
\* the chunk timeout; the read_exact goes on, or read_frame goes from the
\* header to the body, or returns the frame to _wait_for_message, which reads
\* on after a ping or pong and returns any other frame
Recv(d, k, length, control) ==
    /\ wfm_pc = "read"
    /\ d <= RemainingTime(rx_deadline, mono)
    /\ k <= rx_need
    /\ mono' = mono + d
    /\ IF k < rx_need
         THEN /\ rx_need' = rx_need - k
              /\ UNCHANGED <<wfm_pc, wfm_end, nframes, rf_timeout, rf_start, rf_part, rx_deadline,
                             rf_last>>
       ELSE IF rf_part = "header"
         THEN /\ rf_part' = "body"
              /\ rx_deadline' = MonotonicDeadline(rf_timeout, mono')
              /\ rx_need' = length
              /\ UNCHANGED <<wfm_pc, wfm_end, nframes, rf_timeout, rf_start, rf_last>>
       ELSE /\ rf_last' = ReadFrameEnded(mono')
            /\ IF control /\ nframes < MaxCtl
                 THEN /\ nframes' = nframes + 1
                      /\ rf_timeout' = RemainingTime(wfm_deadline, mono')
                      /\ rf_start' = mono'
                      /\ rf_part' = "header"
                      /\ rx_deadline' =
                            MonotonicDeadline(RemainingTime(wfm_deadline, mono'), mono')
                      /\ rx_need' = HEADER_SIZE
                      /\ UNCHANGED <<wfm_pc, wfm_end>>
                 ELSE /\ wfm_pc' = "returned"
                      /\ wfm_end' = mono'
                      /\ UNCHANGED <<nframes, rf_timeout, rf_start, rf_part, rx_deadline,
                                     rx_need>>
    /\ UNCHANGED <<besides_cvars, wfm_deadline>>

\* read_exact: no data within the chunk timeout, sock.recv raises and
\* read_frame raises READ_TIMEOUT through _wait_for_message
RecvTimesOut ==
    /\ wfm_pc = "read"
    /\ mono' = mono + RemainingTime(rx_deadline, mono)
    /\ rf_last' = ReadFrameEnded(mono')
    /\ wfm_pc' = "raised"
    /\ wfm_end' = mono'
    /\ UNCHANGED <<besides_cvars, wfm_deadline, nframes, rf_timeout, rf_start, rf_part,
                   rx_deadline, rx_need>>

DeadlineNext ==
    \/ \E d \in RecvWaits, k \in 1..HEADER_SIZE, length \in 1..MaxSmallBody, control \in BOOLEAN :
          Recv(d, k, length, control)
    \/ RecvTimesOut

DeadlineInit ==
    /\ FrameStart(<<>>) /\ SessionStart(FALSE, TRUE) /\ RateStart(MaxGlobalCap, MaxToolCap)
    /\ PolicyStart(<<>>, <<"a">>) /\ SandboxStart(<<>>, <<>>, <<>>)
    /\ DedupStart(MaxTtl, MaxEntries, <<>>) /\ ClientStart(0) /\ RetryStart(0, 1)
    /\ CodecStart("server", 1, <<>>)
    /\ EnvelopeStart("gauntlet.run", "none", FALSE, <<>>)
    /\ AuditStart("k1", <<>>)
    /\ SummaryAuditStart(<<>>)
    /\ ServerStart(<<>>)
    /\ WaitStart(IDLE_TIMEOUT)
    /\ RecipeStart(<<>>, "none", 1, FALSE)

SpecDeadline == DeadlineInit /\ [][DeadlineNext]_vars

\* C31: one deadline for the whole frame.  A read_frame called with timeout
\* T returns or raises within T of its call, the time of the header counting
\* against the body; and _wait_for_message returns or raises within
\* IDLE_TIMEOUT of its start, pings and pongs not extending it.
OneDeadline ==
    /\ rf_last.set => rf_last.took <= rf_last.timeout
    /\ wfm_pc \in {"returned", "raised"} => wfm_end <= IDLE_TIMEOUT

\* ---------------------------------------------------------------------------
\* mcp_client.py: call_tool on the shared client, and its retries
\* ---------------------------------------------------------------------------
\* most attempts of one call (retry.max_attempts, or attempts of
\* call_with_retry)
MaxCallAttempts == 2

\* str(uuid.uuid4()): a requestId no call has had
FreshId(ids) == ids + 1

\* call_tool up to the end of _write_frame: a request with a new requestId
\* (and idempotencyKey) goes out on the socket; frames are written whole
CallToolWrite(w) ==
    /\ cpc[w] = "idle"
    /\ Len(attempt_ids[w]) < MaxCallAttempts
    /\ next_id' = FreshId(next_id)
    /\ creq' = [creq EXCEPT ![w] = FreshId(next_id)]
    /\ attempt_ids' = [attempt_ids EXCEPT ![w] = Append(@, FreshId(next_id))]
    /\ to_server' = Append(to_server, FreshId(next_id))
    /\ cpc' = [cpc EXCEPT ![w] = "written"]
    /\ UNCHANGED <<besides_mvars, from_server, returned>>

\* the server reads the next request and writes the response to it, which
\* carries the requestId of the request
ServerAnswers ==
    /\ to_server # <<>>
    /\ to_server' = Tail(to_server)
    /\ from_server' = Append(from_server, Head(to_server))
    /\ UNCHANGED <<besides_mvars, next_id, cpc, creq, attempt_ids, returned>>

\* call_tool: _read_frame returns the next frame on the socket
CallToolRead(w) ==
    /\ cpc[w] = "written"
    /\ from_server # <<>>
    /\ from_server' = Tail(from_server)
    /\ returned' = [returned EXCEPT ![w] = [request |-> creq[w], response |-> Head(from_server)]]
    /\ cpc' = [cpc EXCEPT ![w] = "returned"]
    /\ UNCHANGED <<besides_mvars, next_id, to_server, creq, attempt_ids>>

\* call_tool: _read_frame raises READ_TIMEOUT, nothing having arrived.  Under
\* call_with_retry (closes) the client closes the socket, and the next
\* attempt connects anew; under _run_step the socket stays as it is.  With
\* attempts left the call is made again.
ReadTimeout(w, closes) ==
    /\ cpc[w] = "written"
    /\ from_server = <<>>
    /\ closes => \A v \in Workers \ {w} : cpc[v] # "written"
    /\ cpc' = [cpc EXCEPT ![w] =
                  IF Len(attempt_ids[w]) < MaxCallAttempts THEN "idle" ELSE "failed"]
    /\ IF closes THEN to_server' = <<>> ELSE UNCHANGED to_server
    /\ UNCHANGED <<besides_mvars, next_id, from_server, creq, attempt_ids, returned>>

ClientNext ==
    \/ \E w \in Workers : CallToolWrite(w)
    \/ ServerAnswers
    \/ \E w \in Workers : CallToolRead(w)
    \/ \E w \in Workers, closes \in BOOLEAN : ReadTimeout(w, closes)

ClientInit ==
    /\ FrameStart(<<>>) /\ SessionStart(FALSE, TRUE) /\ RateStart(MaxGlobalCap, MaxToolCap)
    /\ PolicyStart(<<>>, <<"a">>) /\ SandboxStart(<<>>, <<>>, <<>>)
    /\ DedupStart(MaxTtl, MaxEntries, <<>>) /\ RetryStart(0, 1)
    /\ CodecStart("server", 1, <<>>)
    /\ EnvelopeStart("gauntlet.run", "none", FALSE, <<>>)
    /\ AuditStart("k1", <<>>)
    /\ SummaryAuditStart(<<>>)
    /\ ServerStart(<<>>)
    /\ WaitStart(0)
    /\ ClientStart(0)
    /\ RecipeStart(<<>>, "none", 1, FALSE)

SpecClient == ClientInit /\ [][ClientNext]_vars

\* C34: one requestId per retried call.  All attempts of one tool call carry
\* the same requestId, which is also their idempotencyKey.
SameRequestId ==
    \A w \in Workers :
        \A i, j \in 1..Len(attempt_ids[w]) : attempt_ids[w][i] = attempt_ids[w][j]

\* C35: a call gets its own response.  Every call_tool that returns hands
\* its caller the response to the request it wrote, with several workers on
\* the client at once and after a retry on the same connection.
OwnResponse ==
    \A w \in Workers : cpc[w] = "returned" => returned[w].response = returned[w].request

=============================================================================
